---- MODULE Spec2Model ----
(***************************************************************************)
(* Model of the invoice fetcher's filing engine (invoice_fetcher/          *)
(* file_manager.py): filename generation and parsing, path derivation,    *)
(* saving, existence check, listing and directory cleanup, over an        *)
(* explicit model of the directory tree below the base directory.         *)
(*                                                                         *)
(* Strings are sequences of one-character strings, so that sanitisation,  *)
(* number formatting, str.replace and the regular expression are computed *)
(* character by character as the code computes them.                      *)
(***************************************************************************)
EXTENDS Integers, Sequences, FiniteSets, TLC

VARIABLES
    dirs,      \* directories below base_dir: a set of paths (sequences of names)
    files,     \* regular files below base_dir: path -> content (sequence of bytes)
    last,      \* the last call: its name, arguments, result or exception
    pending,   \* a call of a pure function waiting to be evaluated, or Idle
    saved,     \* history: dedup keys for which a save_invoice call has succeeded
    allSavesOk, \* history: no save_invoice call has raised so far
    ncalls,    \* history: number of steps taken on the directory tree
    driver,    \* the rendering session (webdriver.Chrome): liveness, cookies
    session,   \* the cookie jar of the HTTP client (requests.Session)
    stack,     \* frames of the client call in progress, innermost last
    trace,     \* history: events of the client call or command in progress
    cli,       \* the fetch command: its position, orders, counters, exit
    heap       \* the dict objects of Config: the class attribute and the instances

vars == <<dirs, files, last, pending, saved, allSavesOk, ncalls,
          driver, session, stack, trace, cli, heap>>

fsVars == <<dirs, files, pending, saved, allSavesOk, ncalls>>

clientVars == <<driver, session, stack, trace, cli, heap>>

(***************************************************************************)
(* Bounds of the model.                                                    *)
(***************************************************************************)
MaxLen == 2        \* longest generated amount / invoice-number / segment string
MaxCalls == 4      \* calls on the directory tree explored in one behaviour
MaxGrowth == 2     \* times the orders page grows while it is scrolled
MaxElems == 2      \* order elements on the orders page

(***************************************************************************)
(* Characters and character classes of Python's re module.                *)
(***************************************************************************)
DigitChars == <<"0", "1", "2", "3", "4", "5", "6", "7", "8", "9">>

LetterChars ==
    {"a", "b", "c", "d", "e", "f", "g", "h", "i", "j", "k", "l", "m",
     "n", "o", "p", "q", "r", "s", "t", "u", "v", "w", "x", "y", "z",
     "A", "B", "C", "D", "E", "F", "G", "H", "I", "J", "K", "L", "M",
     "N", "O", "P", "Q", "R", "S", "T", "U", "V", "W", "X", "Y", "Z"}

\* \d
IsDigit(c) == \E i \in 1..10 : DigitChars[i] = c

\* \w
IsWord(c) == IsDigit(c) \/ c \in LetterChars \/ c = "_"

DigitVal(c) == CHOOSE k \in 0..9 : DigitChars[k + 1] = c

\* str(n) for n >= 0
RECURSIVE StrInt(_)
StrInt(n) ==
    IF n < 10 THEN <<DigitChars[n + 1]>>
    ELSE StrInt(n \div 10) \o <<DigitChars[(n % 10) + 1]>>

RECURSIVE ZeroPad(_, _)
ZeroPad(s, w) == IF Len(s) >= w THEN s ELSE ZeroPad(<<"0">> \o s, w)

\* f"{n}" where f"{n:0wd}" was meant: the zero padding forgotten
FormatIntUnpadded(n, w) == StrInt(n)

\* f"{n:0wd}" for n >= 0: at least w digits, zero-padded on the left
FormatInt(n, w) == ZeroPad(StrInt(n), w)

\* int(s) for a string of digits
RECURSIVE IntOf(_)
IntOf(s) ==
    IF s = <<>> THEN 0
    ELSE IntOf(SubSeq(s, 1, Len(s) - 1)) * 10 + DigitVal(s[Len(s)])

PdfExt == <<".", "p", "d", "f">>
DoubleHyphen == <<"-", "-">>

(***************************************************************************)
(* datetime: a date is [year, month, day]; the constructor raises         *)
(* ValueError outside the calendar (years 1..9999).                       *)
(***************************************************************************)
IsLeap(y) == (y % 4 = 0) /\ ((y % 100 # 0) \/ (y % 400 = 0))

DaysInMonth(y, m) ==
    IF m = 2 THEN (IF IsLeap(y) THEN 29 ELSE 28)
    ELSE IF m \in {4, 6, 9, 11} THEN 30 ELSE 31

ValidDate(y, m, d) ==
    /\ y >= 1 /\ y <= 9999
    /\ m >= 1 /\ m <= 12
    /\ d >= 1 /\ d <= DaysInMonth(y, m)

Date(y, m, d) == [year |-> y, month |-> m, day |-> d]

\* datetime ordering, as used by sorted(..., key=date)
DateLeq(d1, d2) ==
    \/ d1.year < d2.year
    \/ d1.year = d2.year /\ d1.month < d2.month
    \/ d1.year = d2.year /\ d1.month = d2.month /\ d1.day <= d2.day

(***************************************************************************)
(* FileManager.generate_filename                                           *)
(***************************************************************************)
\* re.sub(r"[\d.]", "", amount): the "^" of the character class forgotten, so the
\* digits and dots are removed and everything else is kept
AmountCleanInverted(s) == SelectSeq(s, LAMBDA c : ~(IsDigit(c) \/ c = "."))

\* re.sub(r"[^\d.]", "", amount), one character at a time
RECURSIVE AmountClean(_)
AmountClean(s) ==
    IF s = <<>> THEN <<>>
    ELSE IF IsDigit(Head(s)) \/ Head(s) = "." THEN <<Head(s)>> \o AmountClean(Tail(s))
    ELSE AmountClean(Tail(s))

\* re.sub(r"[^\w\-.]", "", invoice_number), one character at a time
RECURSIVE InvoiceClean(_)
InvoiceClean(s) ==
    IF s = <<>> THEN <<>>
    ELSE IF IsWord(Head(s)) \/ Head(s) = "-" \/ Head(s) = "."
         THEN <<Head(s)>> \o InvoiceClean(Tail(s))
    ELSE InvoiceClean(Tail(s))

generate_filename(transaction_date, amount, invoice_number) ==
    FormatInt(transaction_date.year, 4) \o <<"-">>
    \o FormatInt(transaction_date.month, 2) \o <<"-">>
    \o FormatInt(transaction_date.day, 2) \o DoubleHyphen
    \o AmountClean(amount) \o DoubleHyphen
    \o InvoiceClean(invoice_number) \o PdfExt

(***************************************************************************)
(* FileManager.parse_filename                                              *)
(***************************************************************************)
\* filename.replace(".pdf", ""): every non-overlapping occurrence, left to right
RECURSIVE RemovePdf(_)
RemovePdf(s) ==
    IF s = <<>> THEN <<>>
    ELSE IF Len(s) >= 4 /\ SubSeq(s, 1, 4) = PdfExt THEN RemovePdf(SubSeq(s, 5, Len(s)))
    ELSE <<Head(s)>> \o RemovePdf(Tail(s))

\* length of the longest run of characters other than "-" that starts at s[i]
RECURSIVE NonHyphenRun(_, _)
NonHyphenRun(s, i) ==
    IF i > Len(s) \/ s[i] = "-" THEN 0 ELSE 1 + NonHyphenRun(s, i + 1)

\* "$": the end of the string, or just before a newline that ends the string
StripFinalNewline(s) ==
    IF s # <<>> /\ s[Len(s)] = "\n" THEN SubSeq(s, 1, Len(s) - 1) ELSE s

\* re.match(r"^(\d{4})-(\d{2})-(\d{2})--([^-]+)--(.+)$", name): the five groups in
\* a one-element sequence, or <<>> when there is no match.  [^-]+ is followed by
\* "--", so it can only be the whole run of non-hyphens after the date; "." does
\* not match a newline.
ReMatch(name) ==
    LET run == NonHyphenRun(name, 13)
        rest == StripFinalNewline(SubSeq(name, 15 + run, Len(name)))
    IN  IF /\ Len(name) >= 12
           /\ \A i \in {1, 2, 3, 4, 6, 7, 9, 10} : IsDigit(name[i])
           /\ \A i \in {5, 8, 11, 12} : name[i] = "-"
           /\ run >= 1
           /\ Len(name) >= 14 + run
           /\ SubSeq(name, 13 + run, 14 + run) = DoubleHyphen
           /\ rest # <<>>
           /\ \A i \in 1..Len(rest) : rest[i] # "\n"
        THEN << <<SubSeq(name, 1, 4), SubSeq(name, 6, 7), SubSeq(name, 9, 10),
                  SubSeq(name, 13, 12 + run), rest>> >>
        ELSE <<>>

\* None is <<>>, a parsed record r is <<r>>
parse_filename(filename) ==
    LET name == RemovePdf(filename)
        match == ReMatch(name)
    IN  IF match = <<>> THEN <<>>
        ELSE LET g == match[1]
                 y == IntOf(g[1])
                 m == IntOf(g[2])
                 d == IntOf(g[3])
             IN  IF ValidDate(y, m, d)
                 THEN <<[date |-> Date(y, m, d), amount |-> g[4], invoice_number |-> g[5]]>>
                 ELSE <<>>

(***************************************************************************)
(* The directory tree below base_dir.  A path is the sequence of names    *)
(* below base_dir; <<>> is base_dir itself, which __init__ has created.   *)
(***************************************************************************)
IsDir(p, ds) == p = <<>> \/ p \in ds

IsFile(p, fl) == p \in DOMAIN fl

\* Path.exists()
PathExists(p, ds, fl) == IsDir(p, ds) \/ IsFile(p, fl)

Parent(p) == SubSeq(p, 1, Len(p) - 1)

\* Path.iterdir(): the entries of directory p, in no particular order
Children(p, ds, fl) == {q \in ds \cup DOMAIN fl : q # <<>> /\ Parent(q) = p}

\* str.isdigit()
IsDigitName(name) == name # <<>> /\ \A i \in 1..Len(name) : IsDigit(name[i])

\* fnmatch of "*.pdf"
EndsWithPdf(name) == Len(name) >= 4 /\ SubSeq(name, Len(name) - 3, Len(name)) = PdfExt

\* os.mkdir(p): one directory, its parent must be a directory.  `allowed` is the
\* number of directories the operating system still lets this call create
\* (permissions, free space).
OsMkdir(p, ds, fl, allowed) ==
    IF PathExists(p, ds, fl) THEN [err |-> "FileExistsError", dirs |-> ds, allowed |-> allowed]
    ELSE IF IsFile(Parent(p), fl)
         THEN [err |-> "NotADirectoryError", dirs |-> ds, allowed |-> allowed]
    ELSE IF ~IsDir(Parent(p), ds)
         THEN [err |-> "FileNotFoundError", dirs |-> ds, allowed |-> allowed]
    ELSE IF allowed = 0 THEN [err |-> "PermissionError", dirs |-> ds, allowed |-> allowed]
    ELSE [err |-> "none", dirs |-> ds \cup {p}, allowed |-> allowed - 1]

\* Path.mkdir(parents=True, exist_ok=True)
RECURSIVE PathMkdir(_, _, _, _)
PathMkdir(p, ds, fl, allowed) ==
    LET r == OsMkdir(p, ds, fl, allowed)
    IN  IF r.err = "none" THEN r
        ELSE IF r.err = "FileNotFoundError"
        THEN LET up == PathMkdir(Parent(p), ds, fl, allowed)
             IN  IF up.err # "none" THEN up
                 ELSE LET again == OsMkdir(p, up.dirs, fl, up.allowed)
                      IN  IF again.err \in {"none", "FileNotFoundError"} \/ ~IsDir(p, again.dirs)
                          THEN again
                          ELSE [again EXCEPT !.err = "none"]
        ELSE IF IsDir(p, ds) THEN [r EXCEPT !.err = "none"]
        ELSE r

(***************************************************************************)
(* Failures the operating system may answer a call with.                  *)
(***************************************************************************)
MkdirFaults == {"none", "mkdir_first", "mkdir_second"}

ExistsFaults == {"none", "mkdir_first"}

SaveFaults == {"none", "mkdir_first", "open", "write"}

MkdirAllowance(fault) ==
    IF fault = "mkdir_first" THEN 0 ELSE IF fault = "mkdir_second" THEN 1 ELSE 2

(***************************************************************************)
(* FileManager.get_file_path: the directory is created, then the filename *)
(* is joined to it.  err is the OSError of mkdir, which is not caught.    *)
(***************************************************************************)
YearDirName(transaction_date) == StrInt(transaction_date.year)

MonthDirName(transaction_date) == FormatInt(transaction_date.month, 2)

get_file_path(transaction_date, amount, invoice_number, ds, fl, fault) ==
    LET dir_path == <<YearDirName(transaction_date), MonthDirName(transaction_date)>>
        made == PathMkdir(dir_path, ds, fl, MkdirAllowance(fault))
        filename == generate_filename(transaction_date, amount, invoice_number)
    IN  [err |-> made.err, dirs |-> made.dirs, path |-> Append(dir_path, filename)]

\* open(file_path, "ab") where "wb" was meant: an existing file keeps its bytes
OpenAppend(fl, p) == IF p \in DOMAIN fl THEN fl ELSE (p :> <<>>) @@ fl

\* open(file_path, "wb"): the file is created, or truncated when it exists
OpenWb(fl, p) == (p :> <<>>) @@ fl

\* f.write(bytes)
WriteBytes(fl, p, bytes) == [fl EXCEPT ![p] = @ \o bytes]

\* f"Failed to save invoice {invoice_number}: {e}"
SaveErrorMessage(invoice_number, cause) ==
    <<"Failed to save invoice ", invoice_number, ": ", cause>>

(***************************************************************************)
(* FileManager.list_existing_invoices                                      *)
(***************************************************************************)
\* the year directories searched; year 0 stands for None (`if year:` treats
\* them alike)
SearchDirs(year, ds, fl) ==
    IF year # 0
    THEN (IF PathExists(<<StrInt(year)>>, ds, fl) THEN {<<StrInt(year)>>} ELSE {})
    ELSE {d \in Children(<<>>, ds, fl) : IsDir(d, ds) /\ IsDigitName(d[1])}

\* (file_path, parsed_info) for every "*.pdf" entry of every month directory
\* whose name parses
InvoiceEntries(year, ds, fl) ==
    LET monthDirs ==
            UNION {{m \in Children(y, ds, fl) : IsDir(m, ds)} : y \in SearchDirs(year, ds, fl)}
        pdfs ==
            UNION {{f \in Children(m, ds, fl) : EndsWithPdf(f[Len(f)])} : m \in monthDirs}
    IN  {[path |-> f, info |-> parse_filename(f[Len(f)])[1]] :
            f \in {g \in pdfs : parse_filename(g[Len(g)]) # <<>>}}

\* sorted(invoices, key=date) over every order in which the directories may be
\* listed: the sequences that enumerate S ascending by date
RECURSIVE SortedOrders(_)
SortedOrders(S) ==
    IF S = {} THEN {<<>>}
    ELSE UNION {{<<x>> \o rest : rest \in SortedOrders(S \ {x})} :
                   x \in {y \in S : \A z \in S : DateLeq(y.info.date, z.info.date)}}

\* iterdir() of a search directory that is a regular file raises
ListRaises(year, ds, fl) == \E y \in SearchDirs(year, ds, fl) : ~IsDir(y, ds)

(***************************************************************************)
(* FileManager.cleanup_empty_directories                                   *)
(***************************************************************************)
YearDirs(ds) == {y \in ds : Len(y) = 1 /\ IsDigitName(y[1])}

\* a test that looks for subdirectories only, so a directory holding files
\* counts as empty
IsEmptyDirIgnoringFiles(p, ds, fl) == IsDir(p, ds) /\ {q \in ds : q # <<>> /\ Parent(q) = p} = {}

\* month_dir.is_dir() and not any(month_dir.iterdir())
IsEmptyDir(p, ds, fl) == IsDir(p, ds) /\ Children(p, ds, fl) = {}

EmptyMonthDirs(y, ds, fl) == {m \in Children(y, ds, fl) : IsEmptyDir(m, ds, fl)}

\* the directories one year's iteration removes when every rmdir succeeds
YearRemovals(y, ds, fl) ==
    LET months == EmptyMonthDirs(y, ds, fl)
    IN  months \cup (IF IsEmptyDir(y, ds \ months, fl) THEN {y} ELSE {})

\* every rmdir succeeds: all year directories are processed
CleanupRemovals(ds, fl) == UNION {YearRemovals(y, ds, fl) : y \in YearDirs(ds)}

\* an rmdir raises: the years in `done` were processed, in year y the month
\* directories in `some` were removed, and the next rmdir (of another empty
\* month directory, or of y itself) raised, which ends the call
FailedCleanupRemovals(ds, fl) ==
    {UNION {YearRemovals(d, ds, fl) : d \in run.done} \cup run.some :
        run \in {r \in [done : SUBSET YearDirs(ds), at : YearDirs(ds), some : SUBSET ds] :
                    /\ r.at \notin r.done
                    /\ r.some \subseteq EmptyMonthDirs(r.at, ds, fl)
                    /\ \/ r.some # EmptyMonthDirs(r.at, ds, fl)
                       \/ IsEmptyDir(r.at, ds \ r.some, fl)}}

(***************************************************************************)
(* Inputs.                                                                 *)
(***************************************************************************)
Idle == [op |-> "idle"]

SeqsUpTo(A, n) == UNION {[1..k -> A] : k \in 0..n}

Triple(d, a, n) == [date |-> d, amount |-> a, invoice_number |-> n]

\* "$2.5", "2.5", "7.5", "A-1", "A-1 ", "B_2"
AmountDollar == <<"$", "2", ".", "5">>
AmountPlain == <<"2", ".", "5">>
AmountOther == <<"7", ".", "5">>
InvoiceA == <<"A", "-", "1">>
InvoiceASpace == <<"A", "-", "1", " ">>
InvoiceB == <<"B", "_", "2">>

\* the (date, amount, invoice number) triples the filing calls are made with:
\* two spellings of one dedup key (T1, T2), a year below 1000 (T4), and an
\* amount without any digit that otherwise equals T1 (T5)
T1 == Triple(Date(2024, 3, 15), AmountDollar, InvoiceA)
T2 == Triple(Date(2024, 3, 15), AmountPlain, InvoiceASpace)
T4 == Triple(Date(999, 12, 25), AmountOther, InvoiceB)
T5 == Triple(Date(2024, 3, 15), <<"$">>, InvoiceA)

Triples == {T1, T2, T4, T5}

SharedTriples == {T1, T4}

Contents == {<<1>>, <<2>>}

\* year arguments of list_existing_invoices: None (0), years with and without
\* a directory
ListYears == {0, 999, 2024, 2025}

PathOf(t) ==
    <<YearDirName(t.date), MonthDirName(t.date),
      generate_filename(t.date, t.amount, t.invoice_number)>>

\* entries other programs may create under base_dir: a regular file where a
\* year directory would go, a regular file inside a year directory, a
\* directory where an invoice file would go
ForeignFiles == {<<YearDirName(T4.date)>>, <<YearDirName(T1.date), <<"r", "e", "a", "d", "m", "e">> >>}

ForeignDirs == {PathOf(T1)}

(***************************************************************************)
(* The dedup key of the specification: (year, month, day, sanitized       *)
(* amount, sanitized invoice number), stated without the operators above. *)
(* The history variable `saved` records the keys saved successfully.      *)
(***************************************************************************)
IsDigitOrDot(c) == IsDigit(c) \/ c = "."

IsAlnum(c) == IsDigit(c) \/ c \in LetterChars

IsInvoiceChar(c) == IsAlnum(c) \/ c \in {"-", "_", "."}

DedupKey(t) ==
    [year |-> t.date.year, month |-> t.date.month, day |-> t.date.day,
     amount |-> SelectSeq(t.amount, IsDigitOrDot),
     invoice_number |-> SelectSeq(t.invoice_number, IsInvoiceChar)]

(***************************************************************************)
(* Config.  A dict is a function from keys to values; a value is a scalar  *)
(* Val(x), a reference Ref(name) to one of the nested dict objects of the  *)
(* class attribute DEFAULT_CONFIG, or a dict object Dict(d) that only its  *)
(* holder refers to.  heap.shared are the nested dict objects of the class *)
(* attribute, heap.configs the _config dicts of the instances constructed. *)
(***************************************************************************)
Val(x) == [t |-> "val", v |-> x]

Ref(name) == [t |-> "ref", id |-> name]

Dict(d) == [t |-> "dict", v |-> d]

DEFAULT_DOWNLOAD_DIR == "~/Downloads/invoices"

DEFAULT_CONFIG ==
    [download_dir |-> Val(DEFAULT_DOWNLOAD_DIR), selenium |-> Ref("selenium"),
     amazon |-> Ref("amazon"), logging |-> Ref("logging")]

ClassHeap ==
    [shared |->
        [selenium |-> [driver |-> Val("chrome"), headless |-> Val(TRUE), timeout |-> Val(30),
                       page_load_timeout |-> Val(30)],
         amazon |-> [business_url |-> Val("https://business.amazon.com"),
                     login_timeout |-> Val(60)],
         logging |-> [level |-> Val("INFO"), file |-> [t |-> "None"]]],
     configs |-> <<>>]

(***************************************************************************)
(* No rendering session, HTTP client or command exists.                    *)
(***************************************************************************)
NoDriver == [state |-> "none", url |-> "", cookies |-> <<>>]

NoClient ==
    /\ driver = NoDriver
    /\ session = <<>>
    /\ stack = <<>>
    /\ trace = <<>>
    /\ cli = Idle
    /\ heap = ClassHeap

(***************************************************************************)
(* The calls on a FileManager, as steps.                                   *)
(***************************************************************************)
Step ==
    /\ pending = Idle /\ ncalls < MaxCalls /\ ncalls' = ncalls + 1
    /\ UNCHANGED clientVars

GetFilePathCall(t, fault) ==
    LET r == get_file_path(t.date, t.amount, t.invoice_number, dirs, files, fault)
    IN  /\ Step
        /\ dirs' = r.dirs
        /\ last' = [op |-> "get_file_path", args |-> t, raised |-> r.err,
                    ret |-> IF r.err = "none" THEN r.path ELSE <<>>]
        /\ UNCHANGED <<files, pending, saved, allSavesOk>>

FileExistsCall(t, fault) ==
    LET r == get_file_path(t.date, t.amount, t.invoice_number, dirs, files, fault)
    IN  /\ Step
        /\ dirs' = r.dirs
        /\ last' = [op |-> "file_exists", args |-> t, raised |-> r.err,
                    ret |-> r.err = "none" /\ PathExists(r.path, r.dirs, files)]
        /\ UNCHANGED <<files, pending, saved, allSavesOk>>

SaveRaises(t, content, type, message) ==
    /\ last' = [op |-> "save_invoice", args |-> t, content |-> content,
                raised |-> type, message |-> message, ret |-> <<>>, before |-> files]
    /\ allSavesOk' = FALSE
    /\ saved' = saved

SaveInvoiceCall(content, t, fault) ==
    LET r == get_file_path(t.date, t.amount, t.invoice_number, dirs, files, fault)
        opens == r.err = "none" /\ ~IsDir(r.path, r.dirs) /\ fault # "open"
    IN  /\ Step
        /\ dirs' = r.dirs
        /\ UNCHANGED pending
        /\ \/ \* mkdir raised in get_file_path, outside the try block
              /\ r.err # "none"
              /\ files' = files
              /\ SaveRaises(t, content, r.err, <<r.err>>)
           \/ \* open() raised: the path is a directory
              /\ r.err = "none" /\ IsDir(r.path, r.dirs)
              /\ files' = files
              /\ SaveRaises(t, content, "FileError",
                            SaveErrorMessage(t.invoice_number, "IsADirectoryError"))
           \/ \* open() raised: permission denied
              /\ r.err = "none" /\ ~IsDir(r.path, r.dirs) /\ fault = "open"
              /\ files' = files
              /\ SaveRaises(t, content, "FileError",
                            SaveErrorMessage(t.invoice_number, "PermissionError"))
           \/ \* open() created or truncated the file, then writing raised
              /\ opens /\ fault = "write"
              /\ \E k \in 0..(Len(content) - 1) :
                    files' = WriteBytes(OpenWb(files, r.path), r.path, SubSeq(content, 1, k))
              /\ SaveRaises(t, content, "FileError",
                            SaveErrorMessage(t.invoice_number, "OSError"))
           \/ /\ opens /\ fault # "write"
              /\ files' = WriteBytes(OpenWb(files, r.path), r.path, content)
              /\ last' = [op |-> "save_invoice", args |-> t, content |-> content,
                          raised |-> "none", message |-> <<>>, ret |-> r.path,
                          before |-> files]
              /\ saved' = saved \cup {DedupKey(t)}
              /\ UNCHANGED allSavesOk

ListExistingInvoicesCall(year) ==
    /\ Step
    /\ IF ListRaises(year, dirs, files)
       THEN last' = [op |-> "list_existing_invoices", year |-> year,
                     raised |-> "NotADirectoryError", ret |-> <<>>]
       ELSE \E r \in SortedOrders(InvoiceEntries(year, dirs, files)) :
                last' = [op |-> "list_existing_invoices", year |-> year,
                         raised |-> "none", ret |-> r]
    /\ UNCHANGED <<dirs, files, pending, saved, allSavesOk>>

\* `failing`: some rmdir raises; the exception is swallowed
CleanupEmptyDirectoriesCall(failing) ==
    /\ Step
    /\ \E removed \in (IF failing THEN FailedCleanupRemovals(dirs, files)
                       ELSE {CleanupRemovals(dirs, files)}) :
          /\ dirs' = dirs \ removed
          /\ last' = [op |-> "cleanup_empty_directories", raised |-> "none",
                      failed |-> failing, before |-> [dirs |-> dirs, files |-> files]]
    /\ UNCHANGED <<files, pending, saved, allSavesOk>>

(***************************************************************************)
(* Other programs writing below base_dir.                                  *)
(***************************************************************************)
ForeignCreateFile(p) ==
    /\ Step
    /\ ~PathExists(p, dirs, files) /\ IsDir(Parent(p), dirs)
    /\ files' = (p :> <<0>>) @@ files
    /\ last' = [op |-> "foreign", raised |-> "none"]
    /\ UNCHANGED <<dirs, pending, saved, allSavesOk>>

ForeignCreateDir(p) ==
    /\ Step
    /\ ~PathExists(p, dirs, files) /\ IsDir(Parent(p), dirs)
    /\ dirs' = dirs \cup {p}
    /\ last' = [op |-> "foreign", raised |-> "none"]
    /\ UNCHANGED <<files, pending, saved, allSavesOk>>

(***************************************************************************)
(* Spec: the calls on one FileManager over an initially empty base_dir.   *)
(***************************************************************************)
Init ==
    /\ dirs = {}
    /\ files = <<>>
    /\ last = [op |-> "init", raised |-> "none"]
    /\ pending = Idle
    /\ saved = {}
    /\ allSavesOk = TRUE
    /\ ncalls = 0
    /\ NoClient

Next ==
    \/ \E t \in Triples, fault \in MkdirFaults : GetFilePathCall(t, fault)
    \/ \E t \in Triples, fault \in ExistsFaults : FileExistsCall(t, fault)
    \/ \E c \in Contents, t \in Triples, fault \in SaveFaults : SaveInvoiceCall(c, t, fault)
    \/ \E year \in ListYears : ListExistingInvoicesCall(year)
    \/ \E failing \in BOOLEAN : CleanupEmptyDirectoriesCall(failing)

Spec == Init /\ [][Next]_vars

(***************************************************************************)
(* SpecShared: base_dir shared with other programs.                        *)
(***************************************************************************)
NextShared ==
    \/ \E t \in SharedTriples, fault \in MkdirFaults : GetFilePathCall(t, fault)
    \/ \E t \in SharedTriples, fault \in ExistsFaults : FileExistsCall(t, fault)
    \/ \E c \in Contents, t \in SharedTriples, fault \in SaveFaults : SaveInvoiceCall(c, t, fault)
    \/ \E year \in ListYears : ListExistingInvoicesCall(year)
    \/ \E failing \in BOOLEAN : CleanupEmptyDirectoriesCall(failing)
    \/ \E p \in ForeignFiles : ForeignCreateFile(p)
    \/ \E p \in ForeignDirs : ForeignCreateDir(p)

SpecShared == Init /\ [][NextShared]_vars

(***************************************************************************)
(* SpecPure: generate_filename and parse_filename applied to inputs from  *)
(* bounded sets.  The initial state holds the call, the step evaluates it.*)
(***************************************************************************)
PureDates ==
    {Date(1, 1, 1), Date(999, 12, 25), Date(2024, 2, 29), Date(2024, 3, 15),
     Date(9999, 12, 31)}

AmountChars == {"1", ".", "$", "-"}

InvoiceChars == {"7", "a", "-", " "}

\* "$249.99" and "1,234.50"
ExampleAmount == <<"$", "2", "4", "9", ".", "9", "9">>

Amounts == SeqsUpTo(AmountChars, MaxLen) \cup {ExampleAmount, <<"1", ",", "2", "3", "4", ".", "5", "0">>}

\* "123-4567890-1234567", "a.pdfb", "INV.pdf", "#A/1", "B_2"
ExampleInvoice ==
    <<"1", "2", "3", "-", "4", "5", "6", "7", "8", "9", "0", "-",
      "1", "2", "3", "4", "5", "6", "7">>

InvoiceNumbers ==
    SeqsUpTo(InvoiceChars, MaxLen)
    \cup {ExampleInvoice, <<"a", ".", "p", "d", "f", "b">>,
          <<"I", "N", "V", ".", "p", "d", "f">>, <<"#", "A", "/", "1">>, InvoiceB}

\* the ten characters a name starts with: well-formed dates, dates outside the
\* calendar, and a month written with one digit
DatePart(y, m, d) == FormatInt(y, 4) \o <<"-">> \o FormatInt(m, 2) \o <<"-">> \o FormatInt(d, 2)

DateParts ==
    {DatePart(2024, 3, 15), DatePart(2024, 13, 1), DatePart(2023, 2, 31),
     DatePart(2023, 2, 29), DatePart(2024, 2, 29), DatePart(0, 1, 1),
     DatePart(999, 12, 25)}
    \cup {<<"2", "0", "2", "4", "-", "3", "-", "1", "5">>}

\* the text between the date and the suffix: an amount segment, "--", an
\* invoice segment
AmountSegments == SeqsUpTo({"1", "-"}, MaxLen)

InvoiceSegments == SeqsUpTo({"a", "-"}, MaxLen) \cup {<<"a", ".", "p", "d", "f", "b">>}

Suffixes ==
    {PdfExt, <<>>, PdfExt \o PdfExt, <<".", "t", "x", "t">>, PdfExt \o <<"\n">>}

\* "invalid-filename.pdf"
InvalidFilename ==
    <<"i", "n", "v", "a", "l", "i", "d", "-", "f", "i", "l", "e", "n", "a", "m", "e">> \o PdfExt

FileNames ==
    {dp \o DoubleHyphen \o a \o DoubleHyphen \o n \o sfx :
        dp \in DateParts, a \in AmountSegments, n \in InvoiceSegments, sfx \in Suffixes}
    \cup {InvalidFilename,
          generate_filename(Date(2024, 3, 15), ExampleAmount, ExampleInvoice)}

PureCalls ==
    {[op |-> "generate_filename", args |-> Triple(d, a, n)] :
        d \in PureDates, a \in Amounts, n \in InvoiceNumbers}
    \cup {[op |-> "parse_filename", args |-> name] : name \in FileNames}

GenerateFilenameCall ==
    /\ pending.op = "generate_filename"
    /\ last' = [op |-> "generate_filename", args |-> pending.args, raised |-> "none",
                ret |-> generate_filename(pending.args.date, pending.args.amount,
                                          pending.args.invoice_number)]
    /\ pending' = Idle
    /\ UNCHANGED <<dirs, files, saved, allSavesOk, ncalls>>
    /\ UNCHANGED clientVars

ParseFilenameCall ==
    /\ pending.op = "parse_filename"
    /\ last' = [op |-> "parse_filename", args |-> pending.args, raised |-> "none",
                ret |-> parse_filename(pending.args)]
    /\ pending' = Idle
    /\ UNCHANGED <<dirs, files, saved, allSavesOk, ncalls>>
    /\ UNCHANGED clientVars

InitPure ==
    /\ dirs = {}
    /\ files = <<>>
    /\ last = [op |-> "init", raised |-> "none"]
    /\ pending \in PureCalls
    /\ saved = {}
    /\ allSavesOk = TRUE
    /\ ncalls = 0
    /\ NoClient

NextPure == GenerateFilenameCall \/ ParseFilenameCall

SpecPure == InitPure /\ [][NextPure]_vars

(***************************************************************************)
(* What the specification says of the filing engine, stated independently *)
(* of the operators above.                                                 *)
(***************************************************************************)
\* "2024-03-15--249.99--123-4567890-1234567.pdf"
ExampleFilename ==
    <<"2", "0", "2", "4", "-", "0", "3", "-", "1", "5", "-", "-",
      "2", "4", "9", ".", "9", "9", "-", "-",
      "1", "2", "3", "-", "4", "5", "6", "7", "8", "9", "0", "-",
      "1", "2", "3", "4", "5", "6", "7", ".", "p", "d", "f">>

\* the decimal value of the digits s[from..to]
RECURSIVE DigitsValue(_, _, _)
DigitsValue(s, from, to) ==
    IF to < from THEN 0 ELSE DigitsValue(s, from, to - 1) * 10 + DigitVal(s[to])

\* name has the shape YYYY-MM-DD--<amount>--<invoice>.pdf with a non-empty
\* hyphen-free amount and a non-empty invoice segment, and a calendar date
MatchesSpecPattern(name) ==
    /\ Len(name) >= 20
    /\ SubSeq(name, Len(name) - 3, Len(name)) = <<".", "p", "d", "f">>
    /\ \A i \in {1, 2, 3, 4, 6, 7, 9, 10} : IsDigit(name[i])
    /\ \A i \in {5, 8, 11, 12} : name[i] = "-"
    /\ \E k \in 1..(Len(name) - 19) :
          /\ \A i \in 13..(12 + k) : name[i] # "-"
          /\ name[13 + k] = "-" /\ name[14 + k] = "-"
          /\ \A i \in (15 + k)..(Len(name) - 4) : name[i] # "\n"
    /\ ValidDate(DigitsValue(name, 1, 4), DigitsValue(name, 6, 7), DigitsValue(name, 9, 10))

\* C1 (as claimed): parse_filename(generate_filename(d, a, n)) is the record
\* {d, a without its non-digit non-dot characters, n without the characters
\* that are not word characters, "-" or "."}, for every date, amount and
\* invoice number.
C1_RoundTrip ==
    last.op = "generate_filename" =>
        parse_filename(last.ret) =
            <<[date |-> last.args.date,
               amount |-> SelectSeq(last.args.amount, IsDigitOrDot),
               invoice_number |-> SelectSeq(last.args.invoice_number, IsInvoiceChar)]>>

\* C2: generate_filename never fails and returns YYYY-MM-DD--<A>--<N>.pdf: the
\* zero-padded 4/2/2-digit year, month and day, the amount's digits and dots,
\* the invoice number's alphanumerics, "-", "_" and ".", each segment possibly
\* empty; the documented example gives the documented name.
C2_FilenameFormat ==
    last.op = "generate_filename" =>
        LET r == last.ret
            d == last.args.date
            A == SelectSeq(last.args.amount, IsDigitOrDot)
            N == SelectSeq(last.args.invoice_number, IsInvoiceChar)
        IN  /\ last.raised = "none"
            /\ Len(r) = 10 + 2 + Len(A) + 2 + Len(N) + 4
            /\ \A i \in {1, 2, 3, 4, 6, 7, 9, 10} : IsDigit(r[i])
            /\ \A i \in {5, 8, 11, 12} : r[i] = "-"
            /\ DigitsValue(r, 1, 4) = d.year
            /\ DigitsValue(r, 6, 7) = d.month
            /\ DigitsValue(r, 9, 10) = d.day
            /\ SubSeq(r, 13, 12 + Len(A)) = A
            /\ SubSeq(r, 13 + Len(A), 14 + Len(A)) = <<"-", "-">>
            /\ SubSeq(r, 15 + Len(A), 14 + Len(A) + Len(N)) = N
            /\ SubSeq(r, Len(r) - 3, Len(r)) = <<".", "p", "d", "f">>
            /\ (last.args = Triple(Date(2024, 3, 15), ExampleAmount, ExampleInvoice)
                    => r = ExampleFilename)

\* C2 witness: the documented example, whose amount loses its "$"
C2_Witness ==
    /\ last.op = "generate_filename"
    /\ last.args = Triple(Date(2024, 3, 15), ExampleAmount, ExampleInvoice)
    /\ last.ret = ExampleFilename

\* C3 (as claimed): parse_filename returns a record exactly for the names of
\* the shape YYYY-MM-DD--<amount>--<invoice>.pdf with a calendar date, and
\* none for every other name.
C3_ParseIffPattern ==
    last.op = "parse_filename" =>
        /\ last.raised = "none"
        /\ (last.ret # <<>>) <=> MatchesSpecPattern(last.args)

\* C4 (as claimed): get_file_path returns <base>/<YYYY>/<MM>/<filename>, the
\* directory names being the 4-digit year and the 2-digit month that prefix
\* the filename, and that directory exists when the call returns.
C4_PathLayout ==
    (last.op = "get_file_path" /\ last.raised = "none") =>
        LET f == generate_filename(last.args.date, last.args.amount, last.args.invoice_number)
        IN  /\ last.ret = <<SubSeq(f, 1, 4), SubSeq(f, 6, 7), f>>
            /\ <<last.ret[1], last.ret[2]>> \in dirs

\* C5 (as claimed): on a base directory no other program writes to,
\* file_exists returns true exactly when an earlier save_invoice succeeded
\* for a triple with the same dedup key.
C5_ExistsIffSaved ==
    (last.op = "file_exists" /\ last.raised = "none") =>
        (last.ret <=> DedupKey(last.args) \in saved)

\* C6: two triples are filed at the same path exactly when they have the same
\* dedup key, and a save_invoice call, successful or not, leaves every file
\* stored for another dedup key in place with its content (last.before is the
\* files as they were when the call began).
C6_CollisionFree ==
    /\ \A t1, t2 \in Triples : (PathOf(t1) = PathOf(t2)) <=> (DedupKey(t1) = DedupKey(t2))
    /\ last.op = "save_invoice" =>
          \A t \in Triples :
              (DedupKey(t) # DedupKey(last.args) /\ IsFile(PathOf(t), last.before))
                  => /\ IsFile(PathOf(t), files)
                     /\ files[PathOf(t)] = last.before[PathOf(t)]

\* C6 witness: a save succeeded while the file of another dedup key, in the
\* same month directory, was stored
C6_Witness ==
    /\ last.op = "save_invoice" /\ last.raised = "none"
    /\ \E t \in Triples :
          /\ DedupKey(t) # DedupKey(last.args)
          /\ DedupKey(t) \in saved
          /\ IsFile(PathOf(t), last.before)
          /\ Parent(PathOf(t)) = Parent(last.ret)

\* C7: after a successful save_invoice the returned path is the path
\* get_file_path derives for the triple, and the file there holds exactly the
\* bytes of content, whatever it held before.
C7_SaveStoresContent ==
    (last.op = "save_invoice" /\ last.raised = "none") =>
        LET r == get_file_path(last.args.date, last.args.amount, last.args.invoice_number,
                               dirs, files, "none")
        IN  /\ r.err = "none"
            /\ last.ret = r.path
            /\ IsFile(last.ret, files)
            /\ files[last.ret] = last.content

\* C7 witness: a successful save over a file that held other bytes
C7_Witness ==
    /\ last.op = "save_invoice" /\ last.raised = "none"
    /\ IsFile(last.ret, last.before)
    /\ last.before[last.ret] # <<>>
    /\ last.before[last.ret] # last.content

\* C8 (as claimed): when save_invoice cannot store the content it raises
\* FileError, whose message names the invoice number, and nothing else.
C8_SaveRaisesOnlyFileError ==
    (last.op = "save_invoice" /\ last.raised # "none") =>
        /\ last.raised = "FileError"
        /\ last.message[2] = last.args.invoice_number

KeyOfInfo(info) ==
    [year |-> info.date.year, month |-> info.date.month, day |-> info.date.day,
     amount |-> info.amount, invoice_number |-> info.invoice_number]

\* C9 (as claimed): after successful saves only, list_existing_invoices returns
\* exactly one entry per saved dedup key (of the given year, if one is given),
\* ascending by date.
C9_ListExactlySaved ==
    (last.op = "list_existing_invoices" /\ last.raised = "none" /\ allSavesOk) =>
        LET keys == {k \in saved : last.year = 0 \/ k.year = last.year}
            n == Len(last.ret)
        IN  /\ n = Cardinality(keys)
            /\ {KeyOfInfo(last.ret[i].info) : i \in 1..n} = keys
            /\ \A i \in 1..(n - 1) : DateLeq(last.ret[i].info.date, last.ret[i + 1].info.date)

\* C10: cleanup_empty_directories never raises and changes no file; every
\* directory it removes is a month directory that had no entries, or a year
\* directory whose entries were exactly such month directories; and when no
\* rmdir fails, afterwards every year directory has an entry and no month
\* directory in it is empty (last.before is the tree as it was when the call
\* began).
C10_CleanupFrame ==
    last.op = "cleanup_empty_directories" =>
        LET was == last.before
            removed == was.dirs \ dirs
        IN  /\ last.raised = "none"
            /\ files = was.files
            /\ dirs \subseteq was.dirs
            /\ \A d \in removed :
                  /\ Len(d) \in {1, 2}
                  /\ Len(d) = 2 => Children(d, was.dirs, was.files) = {}
                  /\ Len(d) = 1 =>
                        \A m \in Children(d, was.dirs, was.files) :
                            m \in removed /\ Children(m, was.dirs, was.files) = {}
            /\ ~last.failed =>
                  \A y \in {d \in dirs : Len(d) = 1 /\ IsDigitName(d[1])} :
                      /\ Children(y, dirs, files) # {}
                      /\ \A m \in Children(y, dirs, files) :
                            m \in dirs => Children(m, dirs, files) # {}

\* C10 witness: a cleanup without failure removed a month directory and its
\* year directory, kept a year directory that holds a file of another program,
\* and left a stored invoice in place
C10_Witness ==
    /\ last.op = "cleanup_empty_directories" /\ ~last.failed
    /\ \E d \in last.before.dirs \ dirs : Len(d) = 1
    /\ \E d \in last.before.dirs \ dirs : Len(d) = 2
    /\ DOMAIN files # {}
    /\ dirs # {}

(***************************************************************************)
(* InvoiceClient: Python values, the rendering session's answers.         *)
(***************************************************************************)
PyNone == [t |-> "None"]

PyDate(ordinal) == [t |-> "datetime", v |-> ordinal]

PyStr(s) == [t |-> "str", v |-> s]

EmptyDict == [k \in {} |-> PyNone]

\* datetime.min as a proleptic ordinal (date.min.toordinal())
DatetimeMin == 1

Ev(e, url, selector, outcome) ==
    [e |-> e, url |-> url, selector |-> selector, outcome |-> outcome]

order_urls ==
    <<"https://business.amazon.com/orders",
      "https://business.amazon.com/orders/history",
      "https://business.amazon.com/your-account/orders">>

order_indicators ==
    <<"[data-testid='order-card']", ".order-card", "#ordersContainer",
      ".a-section.a-spacing-none.order-info", "[data-test-id='order-tile']">>

nav_selectors ==
    <<"a[href*='orders']", "a[href*='order-history']", "#nav-orders",
      "[data-nav-ref='nav_orders']">>

load_more_selectors ==
    <<"button[data-testid='load-more']", ".load-more-button",
      "button[aria-label*='more']">>

order_selectors ==
    <<"[data-testid='order-card']", ".order-card",
      ".a-section.a-spacing-none.order-info", "[data-test-id='order-tile']">>

(***************************************************************************)
(* navigate_to_orders.  pages[i] is what the session does on order_urls[i]:*)
(* get is "ok" or "error"; indicators[j] is what wait.until does for       *)
(* order_indicators[j]: "found", "timeout" or "error" (another exception). *)
(* nav[j] is what find_element / click does for nav_selectors[j]:          *)
(* "clicked", "missing" (NoSuchElementException) or "error".               *)
(***************************************************************************)
RECURSIVE ProbeIndicators(_, _, _)
ProbeIndicators(url, outcomes, j) ==
    IF j > Len(order_indicators)
    THEN [result |-> "exhausted", events |-> <<>>]
    ELSE LET ev == Ev("wait", url, order_indicators[j], outcomes[j])
         IN  CASE outcomes[j] = "found" -> [result |-> "found", events |-> <<ev>>]
               [] outcomes[j] = "timeout" ->
                     LET r == ProbeIndicators(url, outcomes, j + 1)
                     IN  [result |-> r.result, events |-> <<ev>> \o r.events]
               [] OTHER -> [result |-> "error", events |-> <<ev>>]

\* only the URL at position i is tried
TryOnlyOneUrl(pages, i) ==
    IF i > Len(order_urls)
    THEN [result |-> "exhausted", events |-> <<>>]
    ELSE LET url == order_urls[i]
             g == Ev("get", url, "", pages[i].get)
             p == IF pages[i].get = "ok"
                  THEN ProbeIndicators(url, pages[i].indicators, 1)
                  ELSE [result |-> "error", events |-> <<>>]
         IN  [result |-> p.result, events |-> <<g>> \o p.events]

RECURSIVE TryOrderUrls(_, _)
TryOrderUrls(pages, i) ==
    IF i > Len(order_urls)
    THEN [result |-> "exhausted", events |-> <<>>]
    ELSE LET url == order_urls[i]
             g == Ev("get", url, "", pages[i].get)
             p == IF pages[i].get = "ok"
                  THEN ProbeIndicators(url, pages[i].indicators, 1)
                  ELSE [result |-> "error", events |-> <<>>]
         IN  IF p.result = "found"
             THEN [result |-> "found", events |-> <<g>> \o p.events]
             ELSE LET r == TryOrderUrls(pages, i + 1)
                  IN  [result |-> r.result, events |-> <<g>> \o p.events \o r.events]

RECURSIVE TryNavSelectors(_, _)
TryNavSelectors(nav, j) ==
    IF j > Len(nav_selectors)
    THEN [result |-> "exhausted", events |-> <<>>]
    ELSE LET ev == Ev("find", "", nav_selectors[j], nav[j])
         IN  CASE nav[j] = "clicked" -> [result |-> "clicked", events |-> <<ev>>]
               [] nav[j] = "missing" ->
                     LET r == TryNavSelectors(nav, j + 1)
                     IN  [result |-> r.result, events |-> <<ev>> \o r.events]
               [] OTHER -> [result |-> "error", events |-> <<ev>>]

NavigateFailed(cause, events) ==
    [raised |-> "InvoiceNotFoundError",
     message |-> <<"Failed to navigate to orders: ", cause>>,
     events |-> events]

navigate_to_orders(site) ==
    LET u == TryOrderUrls(site.pages, 1)
        n == TryNavSelectors(site.nav, 1)
    IN  CASE u.result = "found" ->
                [raised |-> "none", message |-> <<>>, events |-> u.events]
          [] u.result # "found" /\ n.result = "clicked" ->
                [raised |-> "none", message |-> <<>>, events |-> u.events \o n.events]
          [] u.result # "found" /\ n.result = "error" ->
                NavigateFailed("WebDriverException", u.events \o n.events)
          [] OTHER ->
                NavigateFailed("Could not navigate to orders page", u.events \o n.events)

(***************************************************************************)
(* _extract_order_data.  An order element answers each find_element of a   *)
(* selector list with one outcome: [k |-> "missing"] (an exception),       *)
(* [k |-> "text", v |-> characters], for the date "unparsable" or          *)
(* [k |-> "date", v |-> ordinal] (what _parse_date makes of the text), for *)
(* the invoice link [k |-> "href", v |-> PyStr(url) or PyNone].            *)
(***************************************************************************)
NumSelectors == 4

\* \d{3}-\d{7}-\d{7} at position p of text
OrderShapeAt(text, p) ==
    /\ p + 18 <= Len(text)
    /\ \A i \in 0..18 :
          IF i \in {3, 11} THEN text[p + i] = "-" ELSE IsDigit(text[p + i])

\* re.search(r"#?\s*(\d{3}-\d{7}-\d{7})", text): group 1 or <<>>
OrderNumberSearch(text) ==
    LET starts == {p \in 1..Len(text) : OrderShapeAt(text, p)}
    IN  IF starts = {} THEN <<>>
        ELSE LET p == CHOOSE q \in starts : \A r \in starts : q <= r
             IN  SubSeq(text, p, p + 18)

RECURSIVE DigitRunEnd(_, _)
\* last position of the run of digits starting at p (p - 1 if there is none)
DigitRunEnd(text, p) ==
    IF p <= Len(text) /\ IsDigit(text[p]) THEN DigitRunEnd(text, p + 1) ELSE p - 1

\* re.search(r"\$?(\d+\.?\d*)", text): group 1 or <<>>
TotalSearch(text) ==
    LET starts == {p \in 1..Len(text) : IsDigit(text[p])}
    IN  IF starts = {} THEN <<>>
        ELSE LET p == CHOOSE q \in starts : \A r \in starts : q <= r
                 e == DigitRunEnd(text, p)
                 f == IF e + 1 <= Len(text) /\ text[e + 1] = "."
                      THEN DigitRunEnd(text, e + 2) ELSE e
             IN  SubSeq(text, p, f)

Unset == [set |-> FALSE]

SetTo(v) == [set |-> TRUE, v |-> v]

RECURSIVE OrderNumberField(_, _)
OrderNumberField(outcomes, j) ==
    IF j > NumSelectors THEN Unset
    ELSE IF outcomes[j].k = "text" /\ OrderNumberSearch(outcomes[j].v) # <<>>
         THEN SetTo(OrderNumberSearch(outcomes[j].v))
         ELSE OrderNumberField(outcomes, j + 1)

RECURSIVE DateField(_, _, _)
\* order_data["date"] is assigned before it is tested: an unparsable text
\* leaves None under the key
DateField(outcomes, j, cur) ==
    IF j > NumSelectors THEN cur
    ELSE CASE outcomes[j].k = "date" -> SetTo(PyDate(outcomes[j].v))
           [] outcomes[j].k = "unparsable" -> DateField(outcomes, j + 1, SetTo(PyNone))
           [] OTHER -> DateField(outcomes, j + 1, cur)

RECURSIVE TotalField(_, _)
TotalField(outcomes, j) ==
    IF j > NumSelectors THEN Unset
    ELSE IF outcomes[j].k = "text" /\ TotalSearch(outcomes[j].v) # <<>>
         THEN SetTo(TotalSearch(outcomes[j].v))
         ELSE TotalField(outcomes, j + 1)

RECURSIVE InvoiceUrlField(_, _)
InvoiceUrlField(outcomes, j) ==
    IF j > NumSelectors THEN Unset
    ELSE IF outcomes[j].k = "href" THEN SetTo(outcomes[j].v)
         ELSE InvoiceUrlField(outcomes, j + 1)

DictWith(d, key, field) == IF field.set THEN (key :> field.v) @@ d ELSE d

_extract_order_data(order_element) ==
    LET order_data ==
            DictWith(DictWith(DictWith(DictWith(EmptyDict,
                "order_number", OrderNumberField(order_element.number, 1)),
                "date", DateField(order_element.date, 1, Unset)),
                "total", TotalField(order_element.total, 1)),
                "invoice_url", InvoiceUrlField(order_element.invoice, 1))
    IN  IF "order_number" \in DOMAIN order_data /\ "date" \in DOMAIN order_data
        THEN order_data
        ELSE PyNone

(***************************************************************************)
(* get_recent_orders.  Besides pages and nav the site gives: now (ordinal  *)
(* of the day of datetime.now()), clock (0 when now is midnight sharp, 1   *)
(* for any later time of that day), script ("ok" or "error" of             *)
(* execute_script), heights (the page heights the successive measurements  *)
(* return; after the last one the height stays), load_more[j] ("missing",  *)
(* "hidden", "clicked", "error"), selectors[j] ([k |-> "elements",         *)
(* v |-> elements], [k |-> "nosuch"] or [k |-> "error"]).                  *)
(***************************************************************************)
RECURSIVE ProbeLoadMore(_, _)
ProbeLoadMore(outcomes, j) ==
    IF j > Len(load_more_selectors)
    THEN [result |-> "exhausted", events |-> <<>>]
    ELSE LET ev == Ev("load_more", "", load_more_selectors[j], outcomes[j])
         IN  CASE outcomes[j] \in {"missing", "hidden"} ->
                     LET r == ProbeLoadMore(outcomes, j + 1)
                     IN  [result |-> r.result, events |-> <<ev>> \o r.events]
               [] outcomes[j] = "clicked" -> [result |-> "clicked", events |-> <<ev>>]
               [] OTHER -> [result |-> "error", events |-> <<ev>>]

\* document.body.scrollHeight at the n-th measurement
Height(site, n) ==
    site.heights[IF n <= Len(site.heights) THEN n ELSE Len(site.heights)]

\* a loop that never compares the heights: one scroll and out
ScrollOnce(site, n) ==
    [result |-> "done", events |-> <<Ev("scroll", "", "", "same")>>]

\* the turn's events followed by those of the turns after it
ScrollOn(grew, r) == [result |-> r.result, events |-> grew \o r.events]

RECURSIVE ScrollLoop(_, _)
\* a turn in which the height changed: the load-more button is probed, an
\* error of the probe leaves the loop
ScrollGrew(l, site, n) ==
    IF l.result = "error"
    THEN [result |-> "error", events |-> <<Ev("scroll", "", "", "grew")>> \o l.events]
    ELSE ScrollOn(<<Ev("scroll", "", "", "grew")>> \o l.events, ScrollLoop(site, n + 1))

\* the while loop from its n-th turn: last_height is measurement n,
\* new_height measurement n + 1
ScrollLoop(site, n) ==
    IF Height(site, n + 1) = Height(site, n)
    THEN [result |-> "done", events |-> <<Ev("scroll", "", "", "same")>>]
    ELSE ScrollGrew(ProbeLoadMore(site.load_more, 1), site, n)

RECURSIVE LocateLastOrderElements(_, _)
\* the loop without its break: the last selector with matches wins
LocateLastOrderElements(selectors, j) ==
    IF j > Len(order_selectors)
    THEN [result |-> "none", elements |-> <<>>, events |-> <<>>]
    ELSE LET ev == Ev("find_elements", "", order_selectors[j], selectors[j].k)
             r == LocateLastOrderElements(selectors, j + 1)
         IN  CASE selectors[j].k = "error" ->
                     [result |-> "error", elements |-> <<>>, events |-> <<ev>>]
               [] selectors[j].k = "elements" /\ selectors[j].v # <<>> /\ r.result = "none" ->
                     [result |-> "found", elements |-> selectors[j].v,
                      events |-> <<ev>> \o r.events]
               [] OTHER ->
                     [result |-> r.result, elements |-> r.elements,
                      events |-> <<ev>> \o r.events]

RECURSIVE LocateOrderElements(_, _)
LocateOrderElements(selectors, j) ==
    IF j > Len(order_selectors)
    THEN [result |-> "none", elements |-> <<>>, events |-> <<>>]
    ELSE LET ev == Ev("find_elements", "", order_selectors[j], selectors[j].k)
         IN  CASE selectors[j].k = "elements" /\ selectors[j].v # <<>> ->
                     [result |-> "found", elements |-> selectors[j].v, events |-> <<ev>>]
               [] selectors[j].k = "error" ->
                     [result |-> "error", elements |-> <<>>, events |-> <<ev>>]
               [] OTHER ->
                     LET r == LocateOrderElements(selectors, j + 1)
                     IN  [result |-> r.result, elements |-> r.elements,
                          events |-> <<ev>> \o r.events]

\* datetime.now() - timedelta(days=days): the time of day of now is kept
CutoffDate(site, days) == [t |-> "datetime", v |-> site.now - days, clock |-> site.clock]

\* date >= cutoff_date for a parsed date (midnight of its day)
AtOrAfter(date, cutoff_date) ==
    date.v > cutoff_date.v \/ (date.v = cutoff_date.v /\ cutoff_date.clock = 0)

\* what the extraction of one element gave
Extracted(order_data) ==
    Ev("extract", "", "", IF order_data = PyNone THEN "nothing" ELSE "record")

\* the element is left out: the orders of the elements after it
Skip(order_data, r, errors) ==
    [orders |-> r.orders, errors |-> r.errors + errors,
     events |-> <<Extracted(order_data)>> \o r.events]

\* orders.append(order_data)
AppendOrder(order_data, r) ==
    [orders |-> <<order_data>> \o r.orders, errors |-> r.errors,
     events |-> <<Extracted(order_data)>> \o r.events]

\* the body of the loop without the comparison with cutoff_date
KeepNoCutoff(order_data, cutoff_date, r) ==
    IF order_data = PyNone THEN Skip(order_data, r, 0)
    ELSE IF order_data["date"] = PyNone THEN Skip(order_data, r, 0)
    ELSE AppendOrder(order_data, r)

RECURSIVE FilterOrdersNoCutoff(_, _, _)
FilterOrdersNoCutoff(order_elements, cutoff_date, i) ==
    IF i > Len(order_elements)
    THEN [orders |-> <<>>, errors |-> 0, events |-> <<>>]
    ELSE KeepNoCutoff(_extract_order_data(order_elements[i]), cutoff_date,
                      FilterOrdersNoCutoff(order_elements, cutoff_date, i + 1))

\* the body of the loop without its try/except: the first TypeError ends it
KeepAborting(order_data, cutoff_date, r) ==
    IF order_data = PyNone THEN Skip(order_data, r, 0)
    ELSE IF order_data["date"] = PyNone
    THEN [orders |-> <<>>, errors |-> 1, events |-> <<Extracted(order_data)>>]
    ELSE IF AtOrAfter(order_data["date"], cutoff_date) THEN AppendOrder(order_data, r)
    ELSE Skip(order_data, r, 0)

RECURSIVE FilterOrdersAborting(_, _, _)
FilterOrdersAborting(order_elements, cutoff_date, i) ==
    IF i > Len(order_elements)
    THEN [orders |-> <<>>, errors |-> 0, events |-> <<>>]
    ELSE KeepAborting(_extract_order_data(order_elements[i]), cutoff_date,
                      FilterOrdersAborting(order_elements, cutoff_date, i + 1))

\* order_data.get("date", datetime.min)
DateOrMin(order_data) ==
    IF "date" \in DOMAIN order_data THEN order_data["date"] ELSE PyDate(DatetimeMin)

\* the body of the loop: comparing None with cutoff_date raises TypeError,
\* which the loop prints and skips
Keep(order_data, cutoff_date, r) ==
    IF order_data = PyNone THEN Skip(order_data, r, 0)
    ELSE IF DateOrMin(order_data) = PyNone THEN Skip(order_data, r, 1)
    ELSE IF AtOrAfter(DateOrMin(order_data), cutoff_date) THEN AppendOrder(order_data, r)
    ELSE Skip(order_data, r, 0)

RECURSIVE FilterOrders(_, _, _)
\* the loop over order_elements
FilterOrders(order_elements, cutoff_date, i) ==
    IF i > Len(order_elements)
    THEN [orders |-> <<>>, errors |-> 0, events |-> <<>>]
    ELSE Keep(_extract_order_data(order_elements[i]), cutoff_date,
              FilterOrders(order_elements, cutoff_date, i + 1))

RecentOrdersFailed(cause, events) ==
    [raised |-> "InvoiceNotFoundError",
     message |-> <<"Failed to get recent orders: ", cause>>,
     ret |-> <<>>, errors |-> 0, events |-> events]

\* the order elements are looked up before the page is scrolled
get_recent_orders_scraping_first(site, days) ==
    LET nav == navigate_to_orders(site)
        scroll == IF site.script = "ok" THEN ScrollLoop(site, 1)
                  ELSE [result |-> "error", events |-> <<Ev("scroll", "", "", "error")>>]
        located == LocateOrderElements(site.selectors, 1)
        kept == FilterOrders(located.elements, CutoffDate(site, days), 1)
    IN  CASE nav.raised # "none" ->
                [raised |-> nav.raised, message |-> nav.message, ret |-> <<>>,
                 errors |-> 0, events |-> nav.events]
          [] nav.raised = "none" /\ located.result = "error" ->
                RecentOrdersFailed("WebDriverException", nav.events \o located.events)
          [] nav.raised = "none" /\ located.result # "error" /\ scroll.result = "error" ->
                RecentOrdersFailed("WebDriverException",
                                   nav.events \o located.events \o scroll.events)
          [] nav.raised = "none" /\ scroll.result # "error" /\ located.result = "none" ->
                RecentOrdersFailed("No order elements found on page",
                                   nav.events \o located.events \o scroll.events)
          [] OTHER ->
                [raised |-> "none", message |-> <<>>, ret |-> kept.orders,
                 errors |-> kept.errors,
                 events |-> nav.events \o located.events \o scroll.events \o kept.events]

get_recent_orders(site, days) ==
    LET nav == navigate_to_orders(site)
        cutoff_date == CutoffDate(site, days)
        scroll == IF site.script = "ok" THEN ScrollLoop(site, 1)
                  ELSE [result |-> "error", events |-> <<Ev("scroll", "", "", "error")>>]
        located == LocateOrderElements(site.selectors, 1)
        kept == FilterOrders(located.elements, cutoff_date, 1)
    IN  CASE nav.raised # "none" ->
                [raised |-> nav.raised, message |-> nav.message, ret |-> <<>>,
                 errors |-> 0, events |-> nav.events]
          [] nav.raised = "none" /\ scroll.result = "error" ->
                RecentOrdersFailed("WebDriverException", nav.events \o scroll.events)
          [] nav.raised = "none" /\ scroll.result # "error" /\ located.result = "error" ->
                RecentOrdersFailed("WebDriverException",
                                   nav.events \o scroll.events \o located.events)
          [] nav.raised = "none" /\ scroll.result # "error" /\ located.result = "none" ->
                RecentOrdersFailed("No order elements found on page",
                                   nav.events \o scroll.events \o located.events)
          [] OTHER ->
                [raised |-> "none", message |-> <<>>, ret |-> kept.orders,
                 errors |-> kept.errors,
                 events |-> nav.events \o scroll.events \o located.events \o kept.events]

(***************************************************************************)
(* SpecOrders: navigate_to_orders and get_recent_orders against sites     *)
(* drawn from bounded sets.                                                *)
(***************************************************************************)
BusinessUrl == "https://business.amazon.com"

ClickedUrl == "https://business.amazon.com/#orders-link"

CookiesA == "session-id" :> "a"

CookiesB == ("session-id" :> "b") @@ ("session-token" :> "t")

CookieJars == {CookiesA, CookiesB}

LiveDriver == [state |-> "live", url |-> BusinessUrl, cookies |-> CookiesA]

\* the session after the navigation of `events`, holding `cookies`
AfterNavigation(d, events, cookies) ==
    LET moves == SelectSeq(events, LAMBDA ev : ev.e = "get" \/ ev.outcome = "clicked")
        final == moves[Len(moves)]
    IN  IF moves = <<>> THEN d
        ELSE [d EXCEPT !.url = IF final.e = "get" THEN final.url ELSE ClickedUrl,
                       !.cookies = cookies]

IndicatorsFrom(k, at) ==
    [j \in 1..Len(order_indicators) |->
        IF j < k THEN "timeout" ELSE IF j = k THEN at ELSE "found"]

PageGetError == [get |-> "error", indicators |-> IndicatorsFrom(1, "found")]

PageNone == [get |-> "ok", indicators |-> IndicatorsFrom(Len(order_indicators) + 1, "found")]

PageFoundAt(k) == [get |-> "ok", indicators |-> IndicatorsFrom(k, "found")]

PageWaitError(k) == [get |-> "ok", indicators |-> IndicatorsFrom(k, "error")]

Pages ==
    {PageGetError, PageNone, PageFoundAt(1), PageFoundAt(3),
     PageFoundAt(Len(order_indicators)), PageWaitError(2)}

PageTriples == [1..Len(order_urls) -> Pages]

NavOutcomes ==
    {<<"missing", "missing", "missing", "missing">>,
     <<"clicked", "missing", "missing", "missing">>,
     <<"missing", "missing", "clicked", "clicked">>,
     <<"missing", "error", "clicked", "clicked">>}

NavSites == [pages : PageTriples, nav : NavOutcomes, cookies : CookieJars]

Missing == [k |-> "missing"]

Text(v) == [k |-> "text", v |-> v]

Only(o) == <<o, Missing, Missing, Missing>>

Nowhere == <<Missing, Missing, Missing, Missing>>

\* "777-7777777-7777777", "888-8888888-8888888"
OrderNumberOf(c) == [i \in 1..19 |-> IF i \in {4, 12} THEN "-" ELSE c]

OrderText(number) == <<"O", "r", "d", "e", "r", " ", "#", " ">> \o number

\* "12-34": no order number of the expected shape
ShortNumberText == <<"#", "1", "2", "-", "3", "4">>

TotalText(amount) == <<"T", "o", "t", "a", "l", ":", " ">> \o amount

NoTotalText == <<"N", "/", "A">>

Now == 100

DaysBack == {30, 90}

RecentDay == 95

EdgeDay == 70

OldDay == 5

Href(u) == [k |-> "href", v |-> u]

\* invoice locators: "/i1", "/v", "/i.pdf"
UrlInvoice == <<"/", "i", "1">>

UrlViewer == <<"/", "v">>

UrlPdf == <<"/", "i", ".", "p", "d", "f">>

OrderElement(number, date, total, invoice) ==
    [number |-> number, date |-> date, total |-> total, invoice |-> invoice]

ElemRecent ==
    OrderElement(Only(Text(OrderText(ExampleInvoice))), Only([k |-> "date", v |-> RecentDay]),
                 Only(Text(ExampleAmount)), Only(Href(PyStr(UrlInvoice))))

ElemOld ==
    OrderElement(Only(Text(OrderText(OrderNumberOf("7")))), Only([k |-> "date", v |-> OldDay]),
                 Only(Text(TotalText(AmountOther))), Only(Href(PyStr(UrlPdf))))

ElemTotalOnly ==
    OrderElement(Nowhere, Nowhere, Only(Text(ExampleAmount)),
                 Only(Href(PyStr(UrlViewer))))

ElemUnparsable ==
    OrderElement(Only(Text(OrderNumberOf("8"))), <<[k |-> "unparsable"], Missing, Missing, Missing>>,
                 Only(Text(ExampleAmount)), Only(Href(PyStr(UrlInvoice))))

ElemLate ==
    OrderElement(<<Missing, Text(ShortNumberText), Text(OrderText(OrderNumberOf("9"))), Missing>>,
                 <<[k |-> "unparsable"], [k |-> "date", v |-> RecentDay], Missing, Missing>>,
                 <<Text(NoTotalText), Missing, Text(TotalText(AmountPlain)), Missing>>,
                 <<Missing, Href(PyNone), Missing, Missing>>)

ElemNoNumber ==
    OrderElement(Only(Text(ShortNumberText)), Only([k |-> "date", v |-> RecentDay]),
                 Only(Text(ExampleAmount)), Nowhere)

ElemEdge ==
    OrderElement(Only(Text(OrderNumberOf("7"))), Only([k |-> "date", v |-> EdgeDay]),
                 Nowhere, Nowhere)

ElementKinds ==
    {ElemRecent, ElemOld, ElemTotalOnly, ElemUnparsable, ElemLate, ElemNoNumber, ElemEdge}

ElementLists == SeqsUpTo(ElementKinds, MaxElems) \ {<<>>}

Elements(v) == [k |-> "elements", v |-> v]

SelectorOutcomes ==
    {<<Elements(E), Elements(<<ElemRecent>>), Elements(<<>>), Elements(<<>>)>> : E \in ElementLists}
    \cup {<<Elements(<<>>), [k |-> "nosuch"], Elements(E), Elements(<<ElemOld>>)>> : E \in ElementLists}
    \cup {<<Elements(<<>>), Elements(<<>>), Elements(<<>>), Elements(<<>>)>>,
          <<Elements(<<>>), [k |-> "error"], Elements(<<ElemRecent>>), Elements(<<>>)>>}

\* the page grows g times, then stays
Grows(g) == [n \in 1..(g + 1) |-> n]

\* the page shrinks back; the page stays once before it grows
HeightLists == {Grows(g) : g \in 0..MaxGrowth} \cup {<<2, 3, 2>>, <<2, 2, 3>>}

ScrollOutcomes ==
    {[script |-> "ok", heights |-> h, load_more |-> <<"missing", "hidden", "clicked">>] :
        h \in HeightLists}
    \cup {[script |-> "error", heights |-> Grows(0),
           load_more |-> <<"missing", "missing", "missing">>],
          [script |-> "ok", heights |-> Grows(1), load_more |-> <<"hidden", "error", "missing">>],
          [script |-> "ok", heights |-> Grows(1),
           load_more |-> <<"missing", "missing", "missing">>]}

RecentNavs ==
    {[pages |-> <<PageFoundAt(1), PageNone, PageNone>>,
      nav |-> <<"missing", "missing", "missing", "missing">>],
     [pages |-> <<PageGetError, PageWaitError(2), PageNone>>,
      nav |-> <<"missing", "missing", "clicked", "clicked">>],
     [pages |-> <<PageNone, PageNone, PageGetError>>,
      nav |-> <<"missing", "missing", "missing", "missing">>]}

RecentSites ==
    {[pages |-> n.pages, nav |-> n.nav, cookies |-> CookiesB, now |-> Now, clock |-> c,
      script |-> s.script, heights |-> s.heights, load_more |-> s.load_more,
      selectors |-> sel] :
        n \in RecentNavs, s \in ScrollOutcomes, sel \in SelectorOutcomes, c \in {0, 1}}

ClientReady == driver.state = "live" /\ stack = <<>> /\ cli = Idle

OrdersCalls ==
    {[op |-> "navigate_to_orders", site |-> site] : site \in NavSites}
    \cup {[op |-> "get_recent_orders", site |-> site, days |-> days] :
             site \in RecentSites, days \in DaysBack}
    \cup {[op |-> "_extract_order_data", order_element |-> e] : e \in ElementKinds}

NavigateToOrdersCall ==
    /\ ClientReady
    /\ pending.op = "navigate_to_orders"
    /\ LET r == navigate_to_orders(pending.site)
       IN  /\ last' = [op |-> "navigate_to_orders", site |-> pending.site,
                       raised |-> r.raised, message |-> r.message, events |-> r.events]
           /\ driver' = AfterNavigation(driver, r.events, pending.site.cookies)
    /\ pending' = Idle
    /\ UNCHANGED <<dirs, files, saved, allSavesOk, heap, ncalls, session, stack, trace, cli>>

GetRecentOrdersCall ==
    /\ ClientReady
    /\ pending.op = "get_recent_orders"
    /\ LET r == get_recent_orders(pending.site, pending.days)
       IN  /\ last' = [op |-> "get_recent_orders", site |-> pending.site,
                       days |-> pending.days, raised |-> r.raised,
                       message |-> r.message, ret |-> r.ret, errors |-> r.errors,
                       events |-> r.events]
           /\ driver' = AfterNavigation(driver, r.events, pending.site.cookies)
    /\ pending' = Idle
    /\ UNCHANGED <<dirs, files, saved, allSavesOk, heap, ncalls, session, stack, trace, cli>>

ExtractOrderDataCall ==
    /\ ClientReady
    /\ pending.op = "_extract_order_data"
    /\ last' = [op |-> "_extract_order_data", order_element |-> pending.order_element,
                raised |-> "none", ret |-> _extract_order_data(pending.order_element)]
    /\ pending' = Idle
    /\ UNCHANGED <<dirs, files, saved, allSavesOk, heap, ncalls, driver, session, stack, trace,
                   cli>>

\* InvoiceClient.__init__ on an authenticated session: the cookies are copied
InitOrders ==
    /\ dirs = {}
    /\ files = <<>>
    /\ last = [op |-> "init", raised |-> "none"]
    /\ pending \in OrdersCalls
    /\ saved = {}
    /\ allSavesOk = TRUE
    /\ ncalls = 0
    /\ driver = LiveDriver
    /\ session = LiveDriver.cookies
    /\ stack = <<>>
    /\ trace = <<>>
    /\ cli = Idle
    /\ heap = ClassHeap

NextOrders == NavigateToOrdersCall \/ GetRecentOrdersCall \/ ExtractOrderDataCall

SpecOrders == InitOrders /\ [][NextOrders]_vars

(***************************************************************************)
(* What the specification says of navigation and of get_recent_orders.     *)
(***************************************************************************)
EventsOf(kind) == SelectSeq(last.events, LAMBDA ev : ev.e = kind)

\* some indicator is found on the page, after nothing but timeouts
FoundOn(page) ==
    /\ page.get = "ok"
    /\ \E j \in 1..Len(order_indicators) :
          /\ page.indicators[j] = "found"
          /\ \A h \in 1..(j - 1) : page.indicators[h] = "timeout"

FoundUrls(site) == {i \in 1..Len(order_urls) : FoundOn(site.pages[i])}

\* selectors that give at least one element, none raising before them
MatchingSelectors(site) ==
    {j \in 1..Len(order_selectors) :
        /\ site.selectors[j].k = "elements"
        /\ site.selectors[j].v # <<>>
        /\ \A h \in 1..(j - 1) : site.selectors[h].k # "error"}

SelectorRaises(site) ==
    \E j \in 1..Len(order_selectors) :
        /\ site.selectors[j].k = "error"
        /\ \A h \in 1..(j - 1) :
              ~(site.selectors[h].k = "elements" /\ site.selectors[h].v # <<>>)

Least(S) == CHOOSE j \in S : \A h \in S : j <= h

LocatedBySpec(site) ==
    IF MatchingSelectors(site) = {} THEN <<>>
    ELSE site.selectors[Least(MatchingSelectors(site))].v

\* navigation and scrolling went through and no selector raised
ReachedOrderList(site) ==
    /\ navigate_to_orders(site).raised = "none"
    /\ site.script = "ok"
    /\ ~(Height(site, 2) # Height(site, 1) /\ \E j \in 1..Len(load_more_selectors) :
            /\ site.load_more[j] = "error"
            /\ \A h \in 1..(j - 1) : site.load_more[h] # "clicked")
    /\ ~SelectorRaises(site)

Qualifies(order_element, cutoff) ==
    LET d == _extract_order_data(order_element)
    IN  /\ d # PyNone
        /\ "order_number" \in DOMAIN d /\ "date" \in DOMAIN d
        /\ d["date"] # PyNone
        /\ \/ d["date"].v > cutoff.v
           \/ d["date"].v = cutoff.v /\ cutoff.clock = 0

ExtractionFails(order_element) ==
    LET d == _extract_order_data(order_element)
    IN  d = PyNone \/ d["date"] = PyNone

\* C11: a get_recent_orders call that returns gives exactly the records of
\* the located order elements whose extraction yields an order number and a
\* date not earlier than now - days, in page order, each once; every record
\* has an order number and a non-null date at or after the cutoff.
C11_RecentOrdersExact ==
    (last.op = "get_recent_orders" /\ last.raised = "none") =>
        LET cutoff == CutoffDate(last.site, last.days)
            expected == SelectSeq(LocatedBySpec(last.site),
                                  LAMBDA e : Qualifies(e, cutoff))
        IN  /\ Len(last.ret) = Len(expected)
            /\ \A i \in 1..Len(expected) :
                  /\ last.ret[i] = _extract_order_data(expected[i])
                  /\ "order_number" \in DOMAIN last.ret[i]
                  /\ last.ret[i]["order_number"] # <<>>
                  /\ "date" \in DOMAIN last.ret[i]
                  /\ last.ret[i]["date"] # PyNone
                  /\ last.ret[i]["date"].v >= cutoff.v

\* a page of an old order followed by a recent one: only the recent is returned
C11_Witness ==
    /\ last.op = "get_recent_orders" /\ last.raised = "none"
    /\ LocatedBySpec(last.site) = <<ElemOld, ElemRecent>>
    /\ Len(last.ret) = 1
    /\ last.ret[1]["order_number"] = ExampleInvoice

\* C12: when the order list is reached and some element's extraction yields
\* nothing or its filtering raises, get_recent_orders still returns, and
\* the record of every qualifying element of the page is in the result.
C12_PartialFailureIsolation ==
    (/\ last.op = "get_recent_orders"
     /\ ReachedOrderList(last.site)
     /\ LocatedBySpec(last.site) # <<>>
     /\ \E i \in 1..Len(LocatedBySpec(last.site)) :
           ExtractionFails(LocatedBySpec(last.site)[i]))
    => /\ last.raised = "none"
       /\ \A i \in 1..Len(LocatedBySpec(last.site)) :
             Qualifies(LocatedBySpec(last.site)[i], CutoffDate(last.site, last.days))
             => \E k \in 1..Len(last.ret) :
                   last.ret[k] = _extract_order_data(LocatedBySpec(last.site)[i])

\* the filtering of the first element raised, the second element is returned
C12_Witness ==
    /\ last.op = "get_recent_orders" /\ last.raised = "none"
    /\ LocatedBySpec(last.site) = <<ElemUnparsable, ElemRecent>>
    /\ last.errors = 1
    /\ Len(last.ret) = 1

\* C13: navigate_to_orders loads the candidate URLs in list order and
\* returns at the first URL on which an indicator is found; it looks for a
\* navigation link only after every URL has failed; when no URL and no
\* navigation selector succeeds it raises InvoiceNotFoundError.
C13_NavigationOrder ==
    (last.op = "navigate_to_orders") =>
        LET gets == EventsOf("get")
            finds == EventsOf("find")
            found == FoundUrls(last.site)
        IN  /\ Len(gets) <= Len(order_urls)
            /\ \A i \in 1..Len(gets) : gets[i].url = order_urls[i]
            /\ found # {} =>
                  /\ last.raised = "none"
                  /\ Len(gets) = Least(found)
                  /\ finds = <<>>
                  /\ last.events[Len(last.events)].outcome = "found"
            /\ finds # <<>> => (found = {} /\ Len(gets) = Len(order_urls))
            /\ (found = {} /\ \A j \in 1..Len(nav_selectors) : last.site.nav[j] # "clicked")
                  => last.raised = "InvoiceNotFoundError"

\* the first URL fails, the second shows an indicator: two loads, no link search
C13_Witness ==
    /\ last.op = "navigate_to_orders" /\ last.raised = "none"
    /\ ~FoundOn(last.site.pages[1]) /\ FoundOn(last.site.pages[2])
    /\ Len(EventsOf("get")) = 2
    /\ driver.url = order_urls[2]

\* C14: once the order list is reached, the order elements are those of the
\* first selector, in list order, that gives a match, and no later selector
\* is queried; with no matching selector the call raises
\* InvoiceNotFoundError and returns no record.
C14_FirstMatchingSelector ==
    (last.op = "get_recent_orders" /\ ReachedOrderList(last.site)) =>
        LET queried == EventsOf("find_elements")
            matching == MatchingSelectors(last.site)
        IN  IF matching = {}
            THEN /\ last.raised = "InvoiceNotFoundError"
                 /\ last.ret = <<>>
                 /\ Len(queried) = Len(order_selectors)
            ELSE /\ last.raised = "none"
                 /\ Len(queried) = Least(matching)
                 /\ \A j \in 1..Len(queried) : queried[j].selector = order_selectors[j]
                 /\ last.ret = FilterOrders(last.site.selectors[Least(matching)].v,
                                            CutoffDate(last.site, last.days), 1).orders

\* the first two selectors give nothing, the third gives the elements used
C14_Witness ==
    /\ last.op = "get_recent_orders" /\ last.raised = "none"
    /\ Least(MatchingSelectors(last.site)) = 3
    /\ last.site.selectors[4].v # <<>>
    /\ last.ret # <<>>

\* positions of the navigation actions (page loads and link activations)
Moves(events) ==
    {i \in 1..Len(events) : events[i].e = "get" \/ (events[i].e = "find" /\ events[i].outcome = "clicked")}

\* an indicator was found after the last navigation action
Confirmed(events) ==
    /\ Moves(events) # {}
    /\ \E j \in 1..Len(events) :
          /\ \A i \in Moves(events) : i < j
          /\ events[j].e = "wait" /\ events[j].outcome = "found"

\* C30: when navigate_to_orders returns without error, an indicator was
\* found on the page reached by the last navigation action, and
\* get_recent_orders does not scroll a page on which none was found.
C30_ReturnedPageConfirmed ==
    /\ (last.op = "navigate_to_orders" /\ last.raised = "none") => Confirmed(last.events)
    /\ (last.op = "get_recent_orders" /\ EventsOf("scroll") # <<>>) => Confirmed(last.events)

\* no date text of the element parses
NoDateParses(order_element) ==
    \A j \in 1..Len(order_element.date) : order_element.date[j].k # "date"

\* C27: field extraction on one order element does not raise; a record it
\* returns has an order number and a non-null date; when none of the
\* element's date texts parses it returns nothing.
C27_RecordHasParsedDate ==
    last.op = "_extract_order_data" =>
        /\ last.raised = "none"
        /\ last.ret # PyNone =>
              /\ "order_number" \in DOMAIN last.ret
              /\ "date" \in DOMAIN last.ret
              /\ last.ret["date"] # PyNone
        /\ NoDateParses(last.order_element) => last.ret = PyNone

\* C28: get_recent_orders returns every located order with an order number
\* whose date is on or after the day `days` days before the day of the
\* fetch, at any time of day, and no order of an earlier day.
C28_CutoffIsCalendarDate ==
    (last.op = "get_recent_orders" /\ last.raised = "none") =>
        LET located == LocatedBySpec(last.site)
            first_day == last.site.now - last.days
        IN  /\ \A i \in 1..Len(located) :
                  LET d == _extract_order_data(located[i])
                  IN  (IF d = PyNone THEN FALSE
                       ELSE IF d["date"] = PyNone THEN FALSE
                       ELSE d["date"].v >= first_day)
                          => \E k \in 1..Len(last.ret) : last.ret[k] = d
            /\ \A k \in 1..Len(last.ret) :
                  IF last.ret[k]["date"] = PyNone THEN TRUE
                  ELSE last.ret[k]["date"].v >= first_day

\* the loading loop was entered and left by its break
LoadingEnded ==
    /\ last.op = "get_recent_orders"
    /\ EventsOf("scroll") # <<>>
    /\ \A i \in 1..Len(last.events) :
          last.events[i].e \in {"scroll", "load_more"} => last.events[i].outcome # "error"

\* the first turn of the loop in which the height after the scroll equals
\* the height before it
FirstSameTurn(site) ==
    Least({n \in 1..Len(site.heights) : Height(site, n + 1) = Height(site, n)})

\* C25: the loading loop of get_recent_orders makes one scroll per turn and
\* its last turn is the first one in which the height after the scroll
\* equals the height before it; the order elements are looked up next.
C25_LoadingEndsAtFirstSameHeight ==
    LoadingEnded =>
        LET scrolls == EventsOf("scroll")
        IN  /\ Len(scrolls) = FirstSameTurn(last.site)
            /\ \A n \in 1..Len(scrolls) :
                  scrolls[n].outcome = IF n = Len(scrolls) THEN "same" ELSE "grew"
            /\ EventsOf("find_elements") # <<>>

\* the page grows, shrinks back and stays: three scrolls
C25_Witness ==
    /\ LoadingEnded
    /\ last.site.heights = <<2, 3, 2>>
    /\ Len(EventsOf("scroll")) = 3
    /\ last.raised = "none"

\* a load-more control that is present, displayed and enabled is reached
\* by the probe
Interactable(load_more) ==
    \E j \in 1..Len(load_more) :
        /\ load_more[j] = "clicked"
        /\ \A k \in 1..(j - 1) : load_more[k] \in {"missing", "hidden"}

\* C26: every turn of the loading loop probes the load-more selectors and
\* activates a control that is present, displayed and enabled, so that the
\* loop is not left while such a control was never activated.
C26_LoadMoreActivatedEachTurn ==
    (LoadingEnded /\ Interactable(last.site.load_more)) =>
        Len(SelectSeq(last.events,
                      LAMBDA ev : ev.e = "load_more" /\ ev.outcome = "clicked"))
            = Len(EventsOf("scroll"))

\* the phase an event belongs to: navigating, loading, scraping, filtering
Phase(ev) ==
    CASE ev.e \in {"get", "wait", "find"} -> 1
      [] ev.e \in {"scroll", "load_more"} -> 2
      [] ev.e = "find_elements" -> 3
      [] ev.e = "extract" -> 4

\* C24: in one get_recent_orders call the events come phase by phase:
\* navigating, loading, scraping, filtering; loading starts only after a
\* successful navigation, the order elements are looked up only after the
\* loading loop ended, fields are extracted only after order elements were
\* located, and a failed navigation is followed by nothing.
C24_PhasesInOrder ==
    last.op = "get_recent_orders" =>
        LET events == last.events
            navigated == navigate_to_orders(last.site).raised = "none"
            scrolls == EventsOf("scroll")
        IN  /\ \A i, j \in 1..Len(events) : i < j => Phase(events[i]) <= Phase(events[j])
            /\ ~navigated => \A i \in 1..Len(events) : Phase(events[i]) = 1
            /\ EventsOf("find_elements") # <<>> =>
                  /\ scrolls # <<>>
                  /\ scrolls[Len(scrolls)].outcome = "same"
            /\ EventsOf("extract") # <<>> =>
                  \E i \in 1..Len(events) :
                      /\ events[i].e = "find_elements"
                      /\ events[i].outcome = "elements"
                      /\ last.site.selectors[Least(MatchingSelectors(last.site))].v # <<>>

\* a call that went through all the phases
C24_Witness ==
    /\ last.op = "get_recent_orders"
    /\ last.raised = "none"
    /\ Len(EventsOf("scroll")) > 1
    /\ EventsOf("load_more") # <<>>
    /\ EventsOf("find_elements") # <<>>
    /\ Len(EventsOf("extract")) > 1

(***************************************************************************)
(* download_invoice and _download_with_selenium, step by step.  A frame of *)
(* `stack` is [fn, url, pc, sel]: download_invoice is at "sync" (before    *)
(* _sync_cookies) or at "get" (before session.get, and while it waits for  *)
(* _download_with_selenium); _download_with_selenium is at "navigate"      *)
(* (before driver.get) or at "find" (in the loop, at pdf_selectors[sel],   *)
(* and while it waits for download_invoice).                               *)
(***************************************************************************)
MaxDepth == 4      \* frames on the stack: the interpreter's recursion limit
MaxDownloads == 2  \* download_invoice calls made on one client

pdf_selectors ==
    <<"a[href$='.pdf']", "iframe[src*='pdf']", "embed[src*='pdf']",
      "[data-testid='download-pdf']">>

UpperChars ==
    <<"A", "B", "C", "D", "E", "F", "G", "H", "I", "J", "K", "L", "M",
      "N", "O", "P", "Q", "R", "S", "T", "U", "V", "W", "X", "Y", "Z">>

LowerChars ==
    <<"a", "b", "c", "d", "e", "f", "g", "h", "i", "j", "k", "l", "m",
      "n", "o", "p", "q", "r", "s", "t", "u", "v", "w", "x", "y", "z">>

\* str.lower()
Lower(s) ==
    [i \in 1..Len(s) |->
        IF \E k \in 1..Len(UpperChars) : UpperChars[k] = s[i]
        THEN LowerChars[CHOOSE k \in 1..Len(UpperChars) : UpperChars[k] = s[i]]
        ELSE s[i]]

\* sub in s
Contains(s, sub) ==
    \E p \in 1..(Len(s) - Len(sub) + 1) : SubSeq(s, p, p + Len(sub) - 1) = sub

\* no content type is taken for a PDF
ContentTypeNeverPdf(content_type) == FALSE

\* "pdf" in response.headers.get("content-type", "").lower()
ContentTypeIsPdf(content_type) == Contains(Lower(content_type), <<"p", "d", "f">>)

\* the cookies are not copied
StaleJar(cookies, jar) == jar

\* _sync_cookies: every cookie of the session is set in the jar
_sync_cookies(cookies, jar) == cookies @@ jar

\* response.raise_for_status(): HTTPError for 4xx and 5xx
RaiseForStatus(status) == 400 <= status /\ status < 600

Frame(fn, url, pc) == [fn |-> fn, url |-> url, pc |-> pc, sel |-> 1]

Returned(v) == [kind |-> "return", type |-> "none", message |-> <<>>, v |-> v]

Raised(type, message) == [kind |-> "raise", type |-> type, message |-> message, v |-> <<>>]

\* line 360
DownloadFailed(invoice_url, cause) ==
    Raised("NetworkError", <<"Failed to download invoice from ", invoice_url, ": ", cause>>)

\* line 396
SeleniumFailed(cause) ==
    Raised("NetworkError", <<"Selenium PDF download failed: ", cause>>)

RECURSIVE Unwind(_, _)
\* `out` leaves the frame above st: a _download_with_selenium frame catches
\* every exception of the download_invoice it called and goes on with its
\* next selector; a download_invoice frame lets the value or the
\* NetworkError of _download_with_selenium through
Unwind(st, out) ==
    IF st = <<>> THEN [stack |-> <<>>, done |-> TRUE, out |-> out]
    ELSE LET top == st[Len(st)]
             rest == SubSeq(st, 1, Len(st) - 1)
         IN  CASE top.fn = "_download_with_selenium" /\ out.kind = "raise"
                    /\ top.sel < Len(pdf_selectors) ->
                     [stack |-> rest \o <<[top EXCEPT !.sel = @ + 1]>>,
                      done |-> FALSE, out |-> out]
               [] top.fn = "_download_with_selenium" /\ out.kind = "raise"
                    /\ top.sel >= Len(pdf_selectors) ->
                     Unwind(rest, SeleniumFailed("Could not find PDF download link"))
               [] OTHER -> Unwind(rest, out)

NoResponse ==
    [error |-> TRUE, status |-> 0, content_type |-> <<>>, content |-> <<>>,
     set_cookie |-> [k \in {} |-> ""]]

\* the call in progress: `first` is the response to its own GET
Running(url) ==
    [op |-> "download_invoice", url |-> url, raised |-> "running",
     message |-> <<>>, ret |-> <<>>, before |-> driver, got |-> FALSE,
     first |-> NoResponse]

\* history of one download_invoice call of the caller: navigations of the
\* session, GETs, and whether the cookies were copied since the last GET
NoEvents == [navigations |-> 0, gets |-> 0, synced |-> FALSE]

\* the frames and the result after `out` left the innermost frame
\* the call record once the outermost download_invoice has got `response`
Seen(response) ==
    IF Len(stack) = 1 /\ ~last.got
    THEN [last EXCEPT !.got = TRUE, !.first = response]
    ELSE last

Resume(out, response) ==
    LET u == Unwind(SubSeq(stack, 1, Len(stack) - 1), out)
    IN  /\ stack' = u.stack
        /\ last' = IF u.done
                   THEN [Seen(response) EXCEPT !.raised = u.out.type,
                                               !.message = u.out.message, !.ret = u.out.v]
                   ELSE Seen(response)

Top == stack[Len(stack)]

At(fn, pc) == stack # <<>> /\ Top.fn = fn /\ Top.pc = pc

Goto(pc) == stack' = [stack EXCEPT ![Len(stack)].pc = pc]

DownloadInvoiceCall(invoice_url) ==
    /\ ClientReady
    /\ pending = Idle
    /\ ncalls < MaxDownloads
    /\ ncalls' = ncalls + 1
    /\ stack' = <<Frame("download_invoice", invoice_url, "sync")>>
    /\ trace' = NoEvents
    /\ last' = Running(invoice_url)
    /\ UNCHANGED <<dirs, files, pending, saved, allSavesOk, heap, driver, session, cli>>

\* _sync_cookies and the read of driver.current_url; `ok` is FALSE when the
\* session raises
SyncCookies(ok) ==
    /\ At("download_invoice", "sync")
    /\ IF ok
       THEN /\ session' = _sync_cookies(driver.cookies, session)
            /\ trace' = [trace EXCEPT !.synced = TRUE]
            /\ Goto("get")
            /\ last' = last
       ELSE /\ session' = session
            /\ trace' = trace
            /\ Resume(Raised("WebDriverException", <<"WebDriverException">>), last.first)
    /\ UNCHANGED <<dirs, files, pending, saved, allSavesOk, heap, ncalls, driver, cli>>

\* session.get and what follows it up to the return or the call of
\* _download_with_selenium.  The response is [error, status, content_type,
\* content, set_cookie]
HttpGet(response) ==
    /\ At("download_invoice", "get")
    /\ trace' = [trace EXCEPT !.gets = @ + 1, !.synced = FALSE]
    /\ session' = IF response.error THEN session ELSE response.set_cookie @@ session
    /\ CASE response.error ->
               Resume(DownloadFailed(Top.url, "ConnectionError"), response)
         [] ~response.error /\ RaiseForStatus(response.status) ->
               Resume(DownloadFailed(Top.url, "HTTPError"), response)
         [] ~response.error /\ ~RaiseForStatus(response.status)
              /\ ~ContentTypeIsPdf(response.content_type) /\ ~EndsWithPdf(Top.url) ->
               IF Len(stack) < MaxDepth
               THEN /\ stack' = Append(stack, Frame("_download_with_selenium", Top.url, "navigate"))
                    /\ last' = Seen(response)
               ELSE Resume(Raised("RecursionError", <<"RecursionError">>), response)
         [] OTHER -> Resume(Returned(response.content), response)
    /\ UNCHANGED <<dirs, files, pending, saved, allSavesOk, heap, ncalls, driver, cli>>

\* driver.get(invoice_url): the page may set other cookies
SeleniumNavigate(ok, cookies) ==
    /\ At("_download_with_selenium", "navigate")
    /\ trace' = [trace EXCEPT !.navigations = @ + 1]
    /\ IF ok
       THEN /\ driver' = [driver EXCEPT !.url = Top.url, !.cookies = cookies]
            /\ Goto("find")
            /\ last' = last
       ELSE /\ driver' = driver
            /\ Resume(SeleniumFailed("WebDriverException"), last.first)
    /\ UNCHANGED <<dirs, files, pending, saved, allSavesOk, heap, ncalls, session, cli>>

\* one turn of the loop over pdf_selectors: found is [k |-> "missing"] (an
\* exception, or an element without src and href) or [k |-> "ref", v |-> url]
SeleniumFind(found) ==
    /\ At("_download_with_selenium", "find")
    /\ trace' = trace
    /\ IF found.k = "ref" /\ Len(stack) < MaxDepth
       THEN /\ stack' = Append(stack, Frame("download_invoice", found.v, "sync"))
            /\ last' = last
       ELSE \* nothing found, or RecursionError caught by the loop
            IF Top.sel < Len(pdf_selectors)
            THEN /\ stack' = [stack EXCEPT ![Len(stack)].sel = @ + 1]
                 /\ last' = last
            ELSE Resume(SeleniumFailed("Could not find PDF download link"), last.first)
    /\ UNCHANGED <<dirs, files, pending, saved, allSavesOk, heap, ncalls, driver, session, cli>>

\* between two calls the session may get other cookies
RotateCookies(cookies) ==
    /\ ClientReady
    /\ pending = Idle
    /\ cookies # driver.cookies
    /\ driver' = [driver EXCEPT !.cookies = cookies]
    /\ UNCHANGED <<dirs, files, last, pending, saved, allSavesOk, heap, ncalls, session, stack,
                   trace, cli>>

Bodies == {<<37, 80>>, <<60>>}

NoSetCookie == NoResponse.set_cookie

Response(status, content_type, content, set_cookie) ==
    [error |-> FALSE, status |-> status, content_type |-> content_type,
     content |-> content, set_cookie |-> set_cookie]

\* "application/pdf", "Application/PDF", "text/html"
CtPdf == <<"a", "p", "p", "l", "i", "c", "a", "t", "i", "o", "n", "/", "p", "d", "f">>

CtPdfUpper == <<"A", "p", "p", "l", "i", "c", "a", "t", "i", "o", "n", "/", "P", "D", "F">>

CtHtml == <<"t", "e", "x", "t", "/", "h", "t", "m", "l">>

Responses ==
    {Response(200, CtPdf, <<37, 80>>, NoSetCookie),
     Response(200, CtPdfUpper, <<60>>, "session-id" :> "h"),
     Response(200, CtHtml, <<60>>, NoSetCookie),
     Response(200, <<>>, <<37, 80>>, NoSetCookie),
     Response(304, CtPdf, <<>>, NoSetCookie),
     Response(404, CtHtml, <<60>>, NoSetCookie),
     Response(503, CtPdf, <<60>>, NoSetCookie),
     NoResponse}

Locators == {UrlInvoice, UrlViewer, UrlPdf}

FindOutcomes == {[k |-> "missing"]} \cup {[k |-> "ref", v |-> u] : u \in {UrlInvoice, UrlPdf}}

InitDownload ==
    /\ dirs = {}
    /\ files = <<>>
    /\ last = [op |-> "init", raised |-> "none"]
    /\ pending = Idle
    /\ saved = {}
    /\ allSavesOk = TRUE
    /\ ncalls = 0
    /\ driver = LiveDriver
    /\ session = LiveDriver.cookies
    /\ stack = <<>>
    /\ trace = NoEvents
    /\ cli = Idle
    /\ heap = ClassHeap

NextDownload ==
    \/ \E u \in Locators : DownloadInvoiceCall(u)
    \/ \E ok \in BOOLEAN : SyncCookies(ok)
    \/ \E r \in Responses : HttpGet(r)
    \/ \E ok \in BOOLEAN, c \in CookieJars : SeleniumNavigate(ok, c)
    \/ \E f \in FindOutcomes : SeleniumFind(f)
    \/ \E c \in CookieJars : RotateCookies(c)

SpecDownload == InitDownload /\ [][NextDownload]_vars

(***************************************************************************)
(* What the specification says of download_invoice.                        *)
(***************************************************************************)
Finished == last.op = "download_invoice" /\ last.raised # "running"

Is2xx(status) == status \in 200..299

\* the content types of the responses that indicate a PDF
PdfContentTypes == {CtPdf, CtPdfUpper}

Names(message, url) == \E i \in 1..Len(message) : message[i] = url

\* C15: when the response to the GET of the locator has a 2xx status and a
\* PDF content type, download_invoice returns the body of that response
\* unchanged and the rendering session is not navigated.
C15_PdfBodyReturned ==
    (/\ Finished /\ last.got /\ ~last.first.error
     /\ Is2xx(last.first.status)
     /\ last.first.content_type \in PdfContentTypes)
    => /\ last.raised = "none"
       /\ last.ret = last.first.content
       /\ trace.navigations = 0
       /\ driver.url = last.before.url

\* a 200 response of type "Application/PDF" to a locator not ending in .pdf
C15_Witness ==
    /\ Finished /\ last.got
    /\ last.url = UrlInvoice
    /\ last.first = Response(200, CtPdfUpper, <<60>>, "session-id" :> "h")
    /\ last.ret = <<60>>

\* C16: when the response to the GET of the locator has a status outside
\* 2xx, download_invoice raises NetworkError with a message naming the
\* locator, returns nothing and does not navigate the rendering session.
C16_Non2xxRaises ==
    (/\ Finished /\ last.got /\ ~last.first.error
     /\ ~Is2xx(last.first.status))
    => /\ last.raised = "NetworkError"
       /\ Names(last.message, last.url)
       /\ last.ret = <<>>
       /\ trace.navigations = 0

\* C17: within one download_invoice call of the caller the rendering
\* session is navigated at most once.
C17_FallbackAtMostOnce ==
    (last.op = "download_invoice") => trace.navigations <= 1

\* the cookie jar holds the session's value of every cookie of the session
JarIsCurrent ==
    \A name \in DOMAIN driver.cookies :
        name \in DOMAIN session /\ session[name] = driver.cookies[name]

\* C18: whenever download_invoice is about to issue a GET, the cookies
\* have been copied from the session since the previous GET, and the jar
\* holds the session's current value of every cookie the session has.
C18_SyncBeforeEveryGet ==
    At("download_invoice", "get") => (trace.synced /\ JarIsCurrent)

\* the GET of a reference found by the fallback, after the navigation gave
\* the session other cookies and a response had set one in the jar
C18_Witness ==
    /\ At("download_invoice", "get")
    /\ Len(stack) = 3
    /\ trace.gets >= 1
    /\ last.before.cookies = CookiesA
    /\ driver.cookies = CookiesB

(***************************************************************************)
(* The fetch command, step by step.  cli.pc is the position of the         *)
(* command: "login" (before _setup_driver), "authenticating" (in the try   *)
(* block of login), "client" (login has returned), "orders" (before        *)
(* get_recent_orders), "loop" (at order cli.i of the loop), "exited".      *)
(***************************************************************************)
DaysInYear(y) == IF IsLeap(y) THEN 366 ELSE 365

RECURSIVE MonthAndDay(_, _, _)
MonthAndDay(y, m, n) ==
    IF n <= DaysInMonth(y, m) THEN Date(y, m, n)
    ELSE MonthAndDay(y, m + 1, n - DaysInMonth(y, m))

RECURSIVE FromOrdinalIn(_, _)
FromOrdinalIn(y, n) ==
    IF n <= DaysInYear(y) THEN MonthAndDay(y, 1, n)
    ELSE FromOrdinalIn(y + 1, n - DaysInYear(y))

\* the calendar date of a proleptic ordinal (datetime.fromordinal)
FromOrdinal(n) == FromOrdinalIn(1, n)

\* "Unknown", "0.00": defaults of order.get
UnknownOrder == <<"U", "n", "k", "n", "o", "w", "n">>

DefaultTotal == <<"0", ".", "0", "0">>

Command(dry_run, sso) ==
    [pc |-> "login", dry_run |-> dry_run, sso |-> sso, orders |-> <<>>, i |-> 1,
     downloaded |-> 0, skipped |-> 0, errors |-> 0, exit |-> 0, exc |-> "none",
     started |-> FALSE, listed |-> FALSE, interrupted |-> FALSE, summary |-> FALSE,
     download_calls |-> 0, save_calls |-> 0]

\* sys.exit(code) from the handler of `exc`
Exited(c, code, exc) == [c EXCEPT !.pc = "exited", !.exit = code, !.exc = exc]

\* driver.quit()
Quit(d) == [d EXCEPT !.state = "quit"]

\* auth.logout(): the session is quit when there is one
Logout(d) == IF d.state = "live" THEN Quit(d) ELSE d

\* an exception inside the try/finally of fetch: logout, then the handler
Abort(exc) ==
    /\ driver' = Logout(driver)
    /\ cli' = Exited(cli, 1, exc)

FetchCall(dry_run, sso, config_ok) ==
    /\ cli = Idle /\ pending = Idle /\ driver = NoDriver
    /\ cli' = IF config_ok THEN Command(dry_run, sso)
              ELSE Exited(Command(dry_run, sso), 1, "ConfigurationError")
    /\ UNCHANGED <<dirs, files, last, pending, saved, allSavesOk, heap, ncalls, driver, session,
                   stack, trace>>

\* login / _login_sso: self.driver = self._setup_driver(...)
LoginSetupDriver(ok) ==
    /\ cli # Idle /\ cli.pc = "login"
    /\ IF ok
       THEN /\ driver' = LiveDriver
            /\ cli' = [cli EXCEPT !.pc = "authenticating", !.started = TRUE]
       ELSE /\ driver' = driver
            /\ cli' = Exited(cli, 1, "WebDriverError")
    /\ UNCHANGED <<dirs, files, last, pending, saved, allSavesOk, heap, ncalls, session, stack,
                   trace>>

\* the try block of login (except AuthenticationError: raise) or of
\* _login_sso (except Exception: quit), ended by `outcome`
LoginFinish(outcome) ==
    /\ cli # Idle /\ cli.pc = "authenticating"
    /\ CASE outcome = "ok" ->
               /\ driver' = driver
               /\ cli' = [cli EXCEPT !.pc = "client"]
         [] outcome = "AuthenticationError" ->
               /\ driver' = IF cli.sso THEN Quit(driver) ELSE driver
               /\ cli' = Exited(cli, 1, "AuthenticationError")
         [] outcome = "Exception" ->
               /\ driver' = Quit(driver)
               /\ cli' = Exited(cli, 1, "AuthenticationError")
         [] OTHER ->
               /\ driver' = driver
               /\ cli' = Exited([cli EXCEPT !.interrupted = TRUE], 1, "KeyboardInterrupt")
    /\ UNCHANGED <<dirs, files, last, pending, saved, allSavesOk, heap, ncalls, session, stack,
                   trace>>

LoginOutcomes == {"ok", "AuthenticationError", "Exception", "KeyboardInterrupt"}

\* client = InvoiceClient(cfg, driver)
ClientInit(ok) ==
    /\ cli # Idle /\ cli.pc = "client"
    /\ IF ok
       THEN /\ session' = _sync_cookies(driver.cookies, session)
            /\ driver' = driver
            /\ cli' = [cli EXCEPT !.pc = "orders"]
       ELSE /\ session' = session
            /\ Abort("WebDriverException")
    /\ UNCHANGED <<dirs, files, last, pending, saved, allSavesOk, heap, ncalls, stack, trace>>

\* what fetch does with the outcome r of client.get_recent_orders(days): the
\* exception leaves through finally, an empty list returns, a list is looped over
Listed(site, r) ==
    /\ cli # Idle /\ cli.pc = "orders"
    /\ driver' = IF r.raised = "none" /\ r.ret # <<>>
                 THEN AfterNavigation(driver, r.events, site.cookies)
                 ELSE Logout(AfterNavigation(driver, r.events, site.cookies))
    /\ cli' = IF r.raised # "none" THEN Exited(cli, 1, r.raised)
              ELSE IF r.ret = <<>> THEN Exited([cli EXCEPT !.listed = TRUE], 0, "none")
              ELSE [cli EXCEPT !.pc = "loop", !.orders = r.ret, !.listed = TRUE]
    /\ UNCHANGED <<dirs, files, last, pending, saved, allSavesOk, heap, ncalls, session,
                   stack, trace>>

\* orders = client.get_recent_orders(days), and the return when it is empty
FetchOrders(site, days) == Listed(site, get_recent_orders(site, days))

\* order.get(key, default)
Get(order, key, default) == IF key \in DOMAIN order THEN order[key] ELSE default

\* `not v` for None and strings
Falsy(v) == IF v = PyNone THEN TRUE ELSE v.v = <<>>

\* file_manager.get_file_path(order_date, order_total, order_num)
OrderPath(order, ds, fl, fault) ==
    get_file_path(FromOrdinal(Get(order, "date", PyNone).v), Get(order, "total", DefaultTotal),
                  Get(order, "order_number", UnknownOrder), ds, fl, fault)

\* the invoice of the order is on disk at the path its fields give
StoredAt(order, ds, fl) ==
    IF Get(order, "date", PyNone) = PyNone THEN FALSE
    ELSE PathExists(OrderPath(order, ds, fl, "none").path, ds, fl)

\* the loop body without `if dry_run:`
TurnWithoutDryRun(order, dry_run, ds, fl, fault) ==
    IF Falsy(Get(order, "invoice_url", PyNone)) THEN "no_url"
    ELSE IF Get(order, "date", PyNone) = PyNone THEN "no_date"
    ELSE LET r == OrderPath(order, ds, fl, fault)
         IN  IF r.err # "none" THEN "raise"
             ELSE IF PathExists(r.path, r.dirs, fl) THEN "skip"
             ELSE "download"

\* the branch the loop body takes for one order
Turn(order, dry_run, ds, fl, fault) ==
    IF Falsy(Get(order, "invoice_url", PyNone)) THEN "no_url"
    ELSE IF Get(order, "date", PyNone) = PyNone THEN "no_date"
    ELSE LET r == OrderPath(order, ds, fl, fault)
         IN  IF r.err # "none" THEN "raise"
             ELSE IF PathExists(r.path, r.dirs, fl) THEN "skip"
             ELSE IF dry_run THEN "dry_run"
             ELSE "download"

\* the counter advances twice
CountTwice(c, field, download_calls, save_calls) ==
    [c EXCEPT ![field] = @ + 2, !.i = @ + 1, !.download_calls = @ + download_calls,
              !.save_calls = @ + save_calls]

\* one of error_count, skipped_count, downloaded_count += 1, and the next order
Count(c, field, download_calls, save_calls) ==
    [c EXCEPT ![field] = @ + 1, !.i = @ + 1, !.download_calls = @ + download_calls,
              !.save_calls = @ + save_calls]

\* what client.download_invoice does for its caller
DownloadOutcomes ==
    {Returned(b) : b \in Bodies}
    \cup {Raised("NetworkError", <<>>), Raised("WebDriverException", <<>>)}

FetchSaveFaults == {"none", "open", "write"}

\* one turn of the loop over orders; `last` keeps what the turn found and did
ProcessOrder(fault, dl, save_fault) ==
    LET order == cli.orders[cli.i]
        t == Turn(order, cli.dry_run, dirs, files, fault)
        r == OrderPath(order, dirs, files, fault)
        did(counted) == [op |-> "process_order", raised |-> "none", turn |-> t,
                         stored |-> StoredAt(order, dirs, files), before |-> files,
                         counted |-> counted,
                         calls |-> (cli'.download_calls - cli.download_calls)
                                   + (cli'.save_calls - cli.save_calls)]
    IN  /\ cli # Idle /\ cli.pc = "loop" /\ cli.i <= Len(cli.orders)
        /\ \/ /\ t \in {"no_url", "no_date"}
              /\ cli' = Count(cli, "errors", 0, 0)
              /\ last' = did("errors")
              /\ UNCHANGED <<driver, dirs, files, saved>>
           \/ \* mkdir raised in file_exists, outside every try of the loop
              /\ t = "raise"
              /\ Abort(r.err)
              /\ last' = did("none")
              /\ dirs' = r.dirs
              /\ UNCHANGED <<files, saved>>
           \/ /\ t = "skip"
              /\ cli' = Count(cli, "skipped", 0, 0)
              /\ last' = did("skipped")
              /\ dirs' = r.dirs
              /\ UNCHANGED <<driver, files, saved>>
           \/ /\ t = "dry_run"
              /\ cli' = Count(cli, "downloaded", 0, 0)
              /\ last' = did("downloaded")
              /\ dirs' = r.dirs
              /\ UNCHANGED <<driver, files, saved>>
           \/ /\ t = "download" /\ dl.kind = "raise" /\ dl.type = "NetworkError"
              /\ cli' = Count(cli, "errors", 1, 0)
              /\ last' = did("errors")
              /\ dirs' = r.dirs
              /\ UNCHANGED <<driver, files, saved>>
           \/ \* not a NetworkError: the except clause of the loop lets it through
              /\ t = "download" /\ dl.kind = "raise" /\ dl.type # "NetworkError"
              /\ driver' = Logout(driver)
              /\ cli' = Exited([cli EXCEPT !.download_calls = @ + 1], 1, dl.type)
              /\ last' = did("none")
              /\ dirs' = r.dirs
              /\ UNCHANGED <<files, saved>>
           \/ /\ t = "download" /\ dl.kind = "return" /\ save_fault = "open"
              /\ cli' = Count(cli, "errors", 1, 1)
              /\ last' = did("errors")
              /\ dirs' = r.dirs
              /\ UNCHANGED <<driver, files, saved>>
           \/ /\ t = "download" /\ dl.kind = "return" /\ save_fault = "write"
              /\ cli' = Count(cli, "errors", 1, 1)
              /\ last' = did("errors")
              /\ dirs' = r.dirs
              /\ \E k \in 0..(Len(dl.v) - 1) :
                    files' = WriteBytes(OpenWb(files, r.path), r.path, SubSeq(dl.v, 1, k))
              /\ UNCHANGED <<driver, saved>>
           \/ /\ t = "download" /\ dl.kind = "return" /\ save_fault = "none"
              /\ cli' = Count(cli, "downloaded", 1, 1)
              /\ last' = did("downloaded")
              /\ dirs' = r.dirs
              /\ files' = WriteBytes(OpenWb(files, r.path), r.path, dl.v)
              /\ saved' = saved \cup {DedupKey(Triple(FromOrdinal(order["date"].v),
                                                     Get(order, "total", DefaultTotal),
                                                     Get(order, "order_number", UnknownOrder)))}
              /\ driver' = driver
        /\ UNCHANGED <<pending, allSavesOk, heap, ncalls, session, stack, trace>>

\* the end of the loop: finally, the summary, sys.exit(1) when errors were counted
FetchFinish ==
    /\ cli # Idle /\ cli.pc = "loop" /\ cli.i > Len(cli.orders)
    /\ driver' = Logout(driver)
    /\ cli' = Exited([cli EXCEPT !.summary = TRUE], IF cli.errors > 0 THEN 1 ELSE 0, "none")
    /\ UNCHANGED <<dirs, files, last, pending, saved, allSavesOk, heap, ncalls, session, stack,
                   trace>>

\* KeyboardInterrupt inside the try/finally of fetch
Interrupt ==
    /\ cli # Idle /\ cli.pc \in {"client", "orders", "loop"}
    /\ driver' = Logout(driver)
    /\ cli' = Exited([cli EXCEPT !.interrupted = TRUE], 1, "KeyboardInterrupt")
    /\ UNCHANGED <<dirs, files, last, pending, saved, allSavesOk, heap, ncalls, session, stack,
                   trace>>

FetchDays == {30, 100}

\* the order of ElemRecent, listed without an invoice link
ElemNoLink ==
    OrderElement(Only(Text(OrderText(ExampleInvoice))), Only([k |-> "date", v |-> RecentDay]),
                 Only(Text(ExampleAmount)), Nowhere)

FetchElements == {ElemRecent, ElemOld, ElemLate, ElemTotalOnly, ElemNoLink}

\* the invoice of ElemRecent as an earlier run stored it
Stored == OrderPath(_extract_order_data(ElemRecent), {}, <<>>, "none")

StoredFiles == (Stored.path :> <<37, 80>>)

FoundFirst == [pages |-> <<PageFoundAt(1), PageNone, PageNone>>,
               nav |-> <<"missing", "missing", "missing", "missing">>]

NotFound == [pages |-> <<PageNone, PageNone, PageGetError>>,
             nav |-> <<"missing", "missing", "missing", "missing">>]

FetchSite(n, elements) ==
    [pages |-> n.pages, nav |-> n.nav, cookies |-> CookiesB, now |-> Now,
     clock |-> 1, script |-> "ok", heights |-> <<1>>, load_more |-> <<"missing", "missing", "missing">>,
     selectors |-> <<Elements(elements), Elements(<<>>), Elements(<<>>), Elements(<<>>)>>]

FetchSites ==
    {FetchSite(FoundFirst, E) : E \in SeqsUpTo(FetchElements, MaxElems)}
    \cup {FetchSite(NotFound, <<ElemRecent>>)}

InitFetch ==
    /\ \/ dirs = {} /\ files = <<>>
       \/ dirs = Stored.dirs /\ files = StoredFiles
    /\ last = [op |-> "init", raised |-> "none"]
    /\ pending = Idle
    /\ saved = {}
    /\ allSavesOk = TRUE
    /\ ncalls = 0
    /\ NoClient

NextFetch ==
    \/ \E dry_run \in BOOLEAN, sso \in BOOLEAN, ok \in BOOLEAN : FetchCall(dry_run, sso, ok)
    \/ \E ok \in BOOLEAN : LoginSetupDriver(ok)
    \/ \E outcome \in LoginOutcomes : LoginFinish(outcome)
    \/ \E ok \in BOOLEAN : ClientInit(ok)
    \/ \E site \in FetchSites, days \in FetchDays : FetchOrders(site, days)
    \/ \E fault \in ExistsFaults, dl \in DownloadOutcomes, sf \in FetchSaveFaults :
          ProcessOrder(fault, dl, sf)
    \/ FetchFinish
    \/ Interrupt

SpecFetch == InitFetch /\ [][NextFetch]_vars

(***************************************************************************)
(* What the specification says of the fetch command.                       *)
(***************************************************************************)
Exits == cli # Idle /\ cli.pc = "exited"

\* C19: when get_recent_orders has returned orders and no interrupt
\* arrives, the command ends only after every order has been counted as
\* downloaded, skipped or failed: no failure on one order ends the loop.
C19_EveryOrderProcessed ==
    (Exits /\ cli.listed /\ ~cli.interrupted)
    => cli.downloaded + cli.skipped + cli.errors = Len(cli.orders)

\* C20: when the command has exited after a rendering session was started,
\* the session has been quit.
C20_SessionQuitOnExit ==
    (Exits /\ cli.started) => driver.state = "quit"

\* C21: an order whose invoice file is already at the path derived from its
\* fields is counted as skipped, without any call of download_invoice or
\* save_invoice and without any change to the stored files.
C21_StoredOrderSkipped ==
    (last.op = "process_order" /\ last.stored)
    => (last.counted = "skipped" /\ last.calls = 0 /\ files = last.before)

\* C22: in dry-run mode download_invoice and save_invoice are never called
\* and no turn of the loop changes the stored files; an empty order list ends
\* the command with exit status 0.
C22_DryRunTouchesNothing ==
    /\ (cli # Idle /\ cli.dry_run)
       => /\ cli.download_calls = 0 /\ cli.save_calls = 0
          /\ last.op = "process_order" => (files = last.before /\ last.calls = 0)
    /\ (Exits /\ cli.listed /\ cli.orders = <<>>) => cli.exit = 0

C22_Witness ==
    /\ Exits /\ cli.dry_run /\ cli.summary /\ cli.downloaded >= 1
    /\ last.op = "process_order" /\ last.turn = "dry_run"
    /\ files = StoredFiles

\* C29: in the loop the three counters sum to the number of orders already
\* processed, and when the summary is printed they sum to the number of
\* orders get_recent_orders returned.
C29_CountersSum ==
    cli # Idle
    => /\ cli.pc = "loop"
          => /\ cli.i <= Len(cli.orders) + 1
             /\ cli.downloaded + cli.skipped + cli.errors = cli.i - 1
       /\ cli.summary => cli.downloaded + cli.skipped + cli.errors = Len(cli.orders)

C29_Witness ==
    /\ cli # Idle /\ cli.summary /\ Len(cli.orders) = 2
    /\ cli.downloaded = 1 /\ cli.skipped = 1

(***************************************************************************)
(* Config.__init__: self._config = DEFAULT_CONFIG.copy() copies the keys   *)
(* of the class attribute; the nested dicts stay the objects of the class. *)
(* A construction in progress is [shared, top, raised]: the nested dict    *)
(* objects of the class, the _config dict of the instance, the exception.  *)
(***************************************************************************)
MaxConfigs == 2

Put(d, key, value) == (key :> value) @@ d

\* dict.copy()
Copy(top, shared) == top

\* merge_dicts(base, new) for a dict `base` whose values are scalars
NestedMerge(base, new) ==
    [k \in DOMAIN base \cup DOMAIN new |-> IF k \in DOMAIN new THEN new[k] ELSE base[k]]

RECURSIVE MergeKeys(_, _, _)
\* merge_dicts(self._config, new), key by key
MergeKeys(s, new, keys) ==
    IF keys = {} THEN s
    ELSE LET key == CHOOSE k \in keys : TRUE
             value == new[key]
             both == key \in DOMAIN s.top /\ s.top[key].t \in {"ref", "dict"}
                     /\ value.t = "dict"
             s1 == IF both /\ s.top[key].t = "ref"
                   THEN [s EXCEPT !.shared[s.top[key].id] = NestedMerge(@, value.v)]
                   ELSE IF both
                   THEN [s EXCEPT !.top = Put(@, key, Dict(NestedMerge(s.top[key].v, value.v)))]
                   ELSE [s EXCEPT !.top = Put(@, key, value)]
         IN  MergeKeys(s1, new, keys \ {key})

_merge_config(s, new_config) == MergeKeys(s, new_config, DOMAIN new_config)

env_mappings ==
    << <<"AMAZON_BUSINESS_EMAIL", <<"amazon", "email">> >>,
       <<"AMAZON_BUSINESS_PASSWORD", <<"amazon", "password">> >>,
       <<"INVOICE_DOWNLOAD_DIR", <<"download_dir">> >>,
       <<"SELENIUM_HEADLESS", <<"selenium", "headless">> >>,
       <<"SELENIUM_TIMEOUT", <<"selenium", "timeout">> >> >>

\* value.lower() in ("true", "1", "yes")
Truthy(value) ==
    Lower(value) \in {<<"t", "r", "u", "e">>, <<"1">>, <<"y", "e", "s">>}

\* int(value) succeeds (strings of digits)
IsInt(value) == value # <<>> /\ \A i \in 1..Len(value) : IsDigit(value[i])

\* current = self._config; setdefault along config_path[:-1]; current[last] = v
SetPath(s, config_path, v) ==
    IF Len(config_path) = 1 THEN [s EXCEPT !.top = Put(@, config_path[1], v)]
    ELSE LET a == config_path[1]
             b == config_path[2]
         IN  IF a \notin DOMAIN s.top THEN [s EXCEPT !.top = Put(@, a, Dict(b :> v))]
             ELSE IF s.top[a].t = "ref" THEN [s EXCEPT !.shared[s.top[a].id] = Put(@, b, v)]
             ELSE IF s.top[a].t = "dict"
             THEN [s EXCEPT !.top = Put(@, a, Dict(Put(s.top[a].v, b, v)))]
             ELSE [s EXCEPT !.raised = "TypeError"]

RECURSIVE _load_env_vars(_, _, _)
\* the loop over env_mappings, from entry j on; env: variable -> string
_load_env_vars(s, env, j) ==
    IF j > Len(env_mappings) \/ s.raised # "none" THEN s
    ELSE LET env_var == env_mappings[j][1]
             config_path == env_mappings[j][2]
         IN  IF env_var \notin DOMAIN env THEN _load_env_vars(s, env, j + 1)
             ELSE LET value == env[env_var]
                  IN  IF env_var = "SELENIUM_HEADLESS"
                      THEN _load_env_vars(SetPath(s, config_path, Val(Truthy(value))), env, j + 1)
                      ELSE IF env_var = "SELENIUM_TIMEOUT"
                      THEN IF IsInt(value)
                           THEN _load_env_vars(SetPath(s, config_path, Val(IntOf(value))),
                                               env, j + 1)
                           ELSE _load_env_vars(s, env, j + 1)
                      ELSE _load_env_vars(SetPath(s, config_path, Val(value)), env, j + 1)

\* _load_config; file is [k |-> "absent"], [k |-> "invalid"] (yaml cannot
\* be loaded) or [k |-> "dict", v |-> file_config]
_load_config(s, file, env) ==
    IF file.k = "invalid" THEN [s EXCEPT !.raised = "ConfigurationError"]
    ELSE _load_env_vars(IF file.k = "dict" THEN _merge_config(s, file.v) ELSE s, env, 1)

\* Config(config_file)
NewConfig(h, file, env) ==
    _load_config([shared |-> h.shared, top |-> Copy(DEFAULT_CONFIG, h.shared),
                  raised |-> "none"], file, env)

\* Config.get(key, default), key split at the dots
get(shared, top, keys, default) ==
    IF keys[1] \notin DOMAIN top THEN default
    ELSE IF Len(keys) = 1 THEN top[keys[1]]
    ELSE LET v == top[keys[1]]
             d == IF v.t = "ref" THEN shared[v.id] ELSE v.v
         IN  IF v.t \in {"ref", "dict"} /\ keys[2] \in DOMAIN d THEN d[keys[2]] ELSE default

None == [t |-> "None"]

\* the construction of a Config; `last` keeps what the new object reports
ConfigCall(file, env) ==
    LET s == NewConfig(heap, file, env)
    IN  /\ Len(heap.configs) < MaxConfigs
        /\ heap' = [shared |-> s.shared,
                    configs |-> IF s.raised = "none" THEN Append(heap.configs, s.top)
                                ELSE heap.configs]
        /\ last' = [op |-> "Config", raised |-> s.raised,
                    plain |-> (file.k = "absent" /\ env = <<>>),
                    headless |-> get(s.shared, s.top, <<"selenium", "headless">>, None),
                    timeout |-> get(s.shared, s.top, <<"selenium", "timeout">>, None),
                    download_dir |-> get(s.shared, s.top, <<"download_dir">>,
                                         Val(DEFAULT_DOWNLOAD_DIR))]
        /\ UNCHANGED <<dirs, files, pending, saved, allSavesOk, ncalls, driver, session,
                       stack, trace, cli>>

Absent == [k |-> "absent"]

ConfigFiles ==
    {Absent, [k |-> "invalid"],
     [k |-> "dict", v |-> [download_dir |-> Val("/tmp/test")]],
     [k |-> "dict", v |-> [selenium |-> Dict([headless |-> Val(FALSE), timeout |-> Val(60)])]],
     [k |-> "dict", v |-> [amazon |-> Dict([email |-> Val("test@example.com")])]],
     [k |-> "dict", v |-> [selenium |-> Val("firefox")]]}

Environments ==
    {<<>>,
     [SELENIUM_HEADLESS |-> <<"f", "a", "l", "s", "e">>],
     [SELENIUM_HEADLESS |-> <<"Y", "e", "s">>, SELENIUM_TIMEOUT |-> <<"4", "5">>],
     [SELENIUM_TIMEOUT |-> <<"s", "o", "o", "n">>],
     [INVOICE_DOWNLOAD_DIR |-> "/env/path", AMAZON_BUSINESS_EMAIL |-> "env@example.com"]}

InitConfig ==
    /\ dirs = {}
    /\ files = <<>>
    /\ last = [op |-> "init", raised |-> "none"]
    /\ pending = Idle
    /\ saved = {}
    /\ allSavesOk = TRUE
    /\ ncalls = 0
    /\ NoClient

NextConfig == \E file \in ConfigFiles, env \in Environments : ConfigCall(file, env)

SpecConfig == InitConfig /\ [][NextConfig]_vars

\* C23: a Config constructed from a non-existent file with no overriding
\* environment variable reports selenium.headless true, selenium.timeout 30
\* and download_dir DEFAULT_DOWNLOAD_DIR, whatever Config objects were
\* constructed before it.
C23_DefaultsUnchanged ==
    (last.op = "Config" /\ last.plain)
    => /\ last.raised = "none"
       /\ last.headless = Val(TRUE)
       /\ last.timeout = Val(30)
       /\ last.download_dir = Val(DEFAULT_DOWNLOAD_DIR)

=============================================================================
